---------------------------- MODULE Spec2Model ----------------------------
(***************************************************************************)
(* Model of the Taipei rent dataset cleaner (house_price_dataset):         *)
(* components/helpers.ts, clean.ts and the refactored helpers that hold    *)
(* getRemovalReason / transformRow.                                        *)
(*                                                                         *)
(* Text is a sequence of one-character tokens.  TLA+ strings are ASCII,    *)
(* so every CJK character of the source is written as an ASCII token; the  *)
(* comment next to each text gives the original.                           *)
(***************************************************************************)
EXTENDS Integers, Sequences, FiniteSets, TLC

VARIABLES
  pc,          \* position of the running script / harness
  data,        \* clean.ts: rows parsed from the CSV (Papa.parse)
  EQUIP_COLS,  \* clean.ts: Array.from(equipSet), insertion order
  removed,     \* clean.ts: Record<Reason, number>
  cleaned,     \* clean.ts: the cleaned records pushed so far
  idx,         \* clean.ts: number of rows data.forEach has visited
  arg,         \* helper call under test: its argument
  ret,         \* helper call under test: what it returned
  rentRows,    \* merge.ts: rows of rent_cln.csv, once loaded
  mrtRows,     \* merge.ts: rows of mrt.csv, once loaded
  mrtMap,      \* merge.ts: Map from trimmed 編號 to a row of mrt.csv
  joined,      \* merge.ts: the rows rentRows.map has produced so far
  filtered,    \* merge.ts: the joined rows that passed the price filter
  lastIndex,   \* clean.ts: PURPOSE_RE.lastIndex
  all,         \* crawl script: the rows kept by filterRows, file after file
  uniq         \* crawl script: the rows after the deduplication

vars == <<pc, data, EQUIP_COLS, removed, cleaned, idx, arg, ret,
          rentRows, mrtRows, mrtMap, joined, filtered, lastIndex,
          all, uniq>>

mergeVars == <<rentRows, mrtRows, mrtMap, joined, filtered>>

\* merge.ts is not running
NoMergeRun ==
  /\ rentRows = <<>>
  /\ mrtRows = <<>>
  /\ mrtMap = <<>>
  /\ joined = <<>>
  /\ filtered = <<>>

\* the variables of the crawl script
crawlVars == <<all, uniq>>

\* the crawl script has not run
NoCrawlRun == all = <<>> /\ uniq = <<>>

(***************************************************************************)
(* JavaScript values                                                       *)
(***************************************************************************)
NULL == [t |-> "null"]
UNDEFINED == [t |-> "undefined"]
NaN == [t |-> "NaN"]
Num(n) == [t |-> "num", v |-> n]
Str(s) == [t |-> "str", v |-> s]

\* LET x == v IN Body(x), the value bound as a parameter
With(v, Body(_)) == Body(v)

(***************************************************************************)
(* String primitives of JavaScript                                         *)
(***************************************************************************)
DigitChars == <<"0", "1", "2", "3", "4", "5", "6", "7", "8", "9">>

IsDigit(c) == \E i \in 1..10 : DigitChars[i] = c

DigitVal(c) == (CHOOSE i \in 1..10 : DigitChars[i] = c) - 1

IsSpace(c) == c = " "

AllDigits(s) == \A i \in 1..Len(s) : IsDigit(s[i])

\* s.slice(a, b) with 0-based a inclusive, b exclusive
Slice(s, a, b) == SubSeq(s, a + 1, b)

RECURSIVE TrimStart(_)
TrimStart(s) ==
  IF s # <<>> /\ IsSpace(Head(s)) THEN TrimStart(Tail(s)) ELSE s

RECURSIVE TrimEnd(_)
TrimEnd(s) ==
  IF s # <<>> /\ IsSpace(s[Len(s)]) THEN TrimEnd(SubSeq(s, 1, Len(s) - 1)) ELSE s

Trim(s) == TrimEnd(TrimStart(s))

LowerChar(c) == CASE c = "N" -> "n" [] c = "A" -> "a" [] OTHER -> c

ToLowerCase(s) == [i \in 1..Len(s) |-> LowerChar(s[i])]

EndsWith(s, suf) ==
  Len(s) >= Len(suf) /\ SubSeq(s, Len(s) - Len(suf) + 1, Len(s)) = suf

StartsWith(s, pre) == Len(s) >= Len(pre) /\ SubSeq(s, 1, Len(pre)) = pre

\* s.includes(sub)
Includes(s, sub) ==
  \E i \in 1..(Len(s) - Len(sub) + 1) : SubSeq(s, i, i + Len(sub) - 1) = sub

\* value of a run of decimal digits (unary plus / parseFloat on digits)
RECURSIVE DigitsToInt(_)
DigitsToInt(s) ==
  IF s = <<>> THEN 0
  ELSE 10 * DigitsToInt(SubSeq(s, 1, Len(s) - 1)) + DigitVal(s[Len(s)])

\* `${n}` for a non-negative integer
RECURSIVE NumText(_)
NumText(n) ==
  IF n < 10 THEN <<DigitChars[n + 1]>>
  ELSE Append(NumText(n \div 10), DigitChars[(n % 10) + 1])

\* zero-padded to width w (dayjs "MM", "DD", "YYYY")
RECURSIVE PadStart(_, _)
PadStart(s, w) == IF Len(s) >= w THEN s ELSE PadStart(<<"0">> \o s, w)

\* s.split(sep) for a one-character separator set
RECURSIVE Split(_, _)
Split(s, seps) ==
  IF \E i \in 1..Len(s) : s[i] \in seps
  THEN LET i == CHOOSE k \in 1..Len(s) :
                  s[k] \in seps /\ \A j \in 1..(k - 1) : s[j] \notin seps
       IN <<SubSeq(s, 1, i - 1)>> \o Split(SubSeq(s, i + 1, Len(s)), seps)
  ELSE <<s>>

(***************************************************************************)
(* Calendar arithmetic behind Date and dayjs                               *)
(***************************************************************************)
\* days since 1970-01-01 of the first day of month m (1..12) of year y
DaysFromCivil(y, m, d) ==
  LET yy == IF m <= 2 THEN y - 1 ELSE y
      era == yy \div 400
      yoe == yy - era * 400
      mp == (m + 9) % 12
      doy == (153 * mp + 2) \div 5 + d - 1
      doe == yoe * 365 + yoe \div 4 - yoe \div 100 + doy
  IN era * 146097 + doe - 719468

CivilFromDays(z0) ==
  LET z == z0 + 719468
      era == z \div 146097
      doe == z - era * 146097
      yoe == (doe - doe \div 1460 + doe \div 36524 - doe \div 146096) \div 365
      doy == doe - (365 * yoe + yoe \div 4 - yoe \div 100)
      mp == (5 * doy + 2) \div 153
      d == doy - (153 * mp + 2) \div 5 + 1
      m == IF mp < 10 THEN mp + 3 ELSE mp - 9
      y == yoe + era * 400 + (IF m <= 2 THEN 1 ELSE 0)
  IN [y |-> y, m |-> m, d |-> d]

\* new Date(y, monthIndex, d): out-of-range month and day roll over
JSDate(y, monthIndex, d) ==
  LET yy == y + monthIndex \div 12
      mm == (monthIndex % 12) + 1
  IN CivilFromDays(DaysFromCivil(yy, mm, 1) + d - 1)

\* dayjs#valueOf in whole days (local midnight)
DayNumber(dt) == DaysFromCivil(dt.y, dt.m, dt.d)

\* dayjs#format("YYYY-M-D")
FormatYMD(dt) == NumText(dt.y) \o <<"-">> \o NumText(dt.m) \o <<"-">> \o NumText(dt.d)

\* dayjs#format("YYYY-MM-DD")
FormatISO(dt) ==
  PadStart(NumText(dt.y), 4) \o <<"-">> \o PadStart(NumText(dt.m), 2)
    \o <<"-">> \o PadStart(NumText(dt.d), 2)

\* mutant of dayjsStrict: the strict flag dropped, so the rolled-over Date
\* is kept whatever the text said
dayjsLoose(text) ==
  With(Split(text, {"-"}), LAMBDA parts :
    IF Len(parts) # 3 \/ \E i \in 1..3 : parts[i] = <<>> \/ ~AllDigits(parts[i])
    THEN NULL
    ELSE With(JSDate(DigitsToInt(parts[1]), DigitsToInt(parts[2]) - 1, DigitsToInt(parts[3])),
              LAMBDA dt : [t |-> "date", y |-> dt.y, m |-> dt.m, d |-> dt.d]))

\* dayjs(text, "YYYY-M-D", true): the customParseFormat plugin reads \d{4},
\* \d\d?, \d\d? between the literal "-", builds a Date (which rolls over),
\* and in strict mode keeps it only if formatting it gives the text back.
dayjsStrict(text) ==
  With(Split(text, {"-"}), LAMBDA parts :
    IF Len(parts) # 3 \/ \E i \in 1..3 : parts[i] = <<>> \/ ~AllDigits(parts[i])
    THEN NULL
    ELSE With(JSDate(DigitsToInt(parts[1]), DigitsToInt(parts[2]) - 1, DigitsToInt(parts[3])),
              LAMBDA dt : IF FormatYMD(dt) = text
                          THEN [t |-> "date", y |-> dt.y, m |-> dt.m, d |-> dt.d]
                          ELSE NULL))

(***************************************************************************)
(* components/helpers.ts                                                   *)
(***************************************************************************)
ROC_OFFSET == 1911

\* the separated form: /(\d{1,3})[./年\-](\d{1,2})[./月\-](\d{1,2})/
YearSeps == {".", "/", "nian", "-"}    \* . / 年 -
MonthSeps == {".", "/", "yue", "-"}    \* . / 月 -

\* s has n digits at positions k .. k+n-1
DigitsAt(s, k, n) == k + n - 1 <= Len(s) /\ \A j \in k..(k + n - 1) : IsDigit(s[j])

\* the regex matches at position i with ny digits of year and nm of month
SepDateFits(s, i, ny, nm) ==
  /\ DigitsAt(s, i, ny)
  /\ i + ny <= Len(s) /\ s[i + ny] \in YearSeps
  /\ DigitsAt(s, i + ny + 1, nm)
  /\ i + ny + nm + 1 <= Len(s) /\ s[i + ny + nm + 1] \in MonthSeps
  /\ DigitsAt(s, i + ny + nm + 2, 1)

\* the match of the separated-date regex at position i, as <<y, m, d>>
\* texts, or <<>>.  \d{1,3}, \d{1,2}, \d{1,2} are greedy and give digits
\* back: the longest year that fits, then the longest month, then the
\* longest day.
SepDateMatchAt(s, i) ==
  With({ c \in (1..3) \X (1..2) : SepDateFits(s, i, c[1], c[2]) }, LAMBDA fits :
    IF fits = {} THEN <<>>
    ELSE With(CHOOSE c \in fits :
                \A o \in fits : c[1] > o[1] \/ (c[1] = o[1] /\ c[2] >= o[2]), LAMBDA c :
         With(i + c[1] + c[2] + 2, LAMBDA pd :
           << SubSeq(s, i, i + c[1] - 1),
              SubSeq(s, i + c[1] + 1, i + c[1] + c[2]),
              SubSeq(s, pd, IF DigitsAt(s, pd, 2) THEN pd + 1 ELSE pd) >>)))

\* the first match in s at or after position i
RECURSIVE SepDateMatchFrom(_, _)
SepDateMatchFrom(s, i) ==
  IF i > Len(s) THEN <<>>
  ELSE With(SepDateMatchAt(s, i), LAMBDA m :
         IF m # <<>> THEN m ELSE SepDateMatchFrom(s, i + 1))

SepDateMatch(s) == SepDateMatchFrom(s, 1)

\* mutant of parseROC: the trailing ".0" is not stripped
parseROC_KeepDotZero(raw) ==
  With(Trim(raw), LAMBDA s1 :
    IF s1 = <<>> \/ ToLowerCase(s1) = <<"n", "a", "n">> THEN NULL
    ELSE IF AllDigits(s1) /\ Len(s1) \in {6, 7}
         THEN With(IF Len(s1) = 6 THEN <<"0">> \o s1 ELSE s1, LAMBDA s :
                dayjsStrict(NumText(DigitsToInt(Slice(s, 0, 3)) + ROC_OFFSET) \o <<"-">>
                              \o NumText(DigitsToInt(Slice(s, 3, 5))) \o <<"-">>
                              \o NumText(DigitsToInt(Slice(s, 5, 7)))))
         ELSE With(SepDateMatch(s1), LAMBDA m :
                IF m = <<>> THEN NULL
                ELSE dayjsStrict(NumText(DigitsToInt(m[1]) + ROC_OFFSET) \o <<"-">>
                                   \o m[2] \o <<"-">> \o m[3])))

\* parseROC(raw): dayjs.Dayjs | null
parseROC(raw) ==
  With(Trim(raw), LAMBDA s0 :
    IF s0 = <<>> \/ ToLowerCase(s0) = <<"n", "a", "n">> THEN NULL
    ELSE With(IF EndsWith(s0, <<".", "0">>) THEN SubSeq(s0, 1, Len(s0) - 2) ELSE s0,
              LAMBDA s1 :
      IF AllDigits(s1) /\ Len(s1) \in {6, 7}
      THEN With(IF Len(s1) = 6 THEN <<"0">> \o s1 ELSE s1, LAMBDA s :
             dayjsStrict(NumText(DigitsToInt(Slice(s, 0, 3)) + ROC_OFFSET) \o <<"-">>
                           \o NumText(DigitsToInt(Slice(s, 3, 5))) \o <<"-">>
                           \o NumText(DigitsToInt(Slice(s, 5, 7)))))
      ELSE With(SepDateMatch(s1), LAMBDA m :
             IF m = <<>> THEN NULL
             ELSE dayjsStrict(NumText(DigitsToInt(m[1]) + ROC_OFFSET) \o <<"-">>
                                \o m[2] \o <<"-">> \o m[3]))))

\* rocToISO(s): string | null
rocToISO(s) ==
  With(parseROC(s), LAMBDA d : IF d = NULL THEN NULL ELSE Str(FormatISO(d)))

\* v ?? dflt
Coalesce(v, dflt) == IF v = NULL \/ v = UNDEFINED THEN dflt ELSE v

\* periodToDays(s): number | null.  A text without "~" splits into one
\* part, so b is undefined: undefined !== null, and the arithmetic gives NaN.
periodToDays(s) ==
  With(Split(s, {"~"}), LAMBDA parts :
  With(parseROC(parts[1]), LAMBDA a :
  With(IF Len(parts) >= 2 THEN parseROC(parts[2]) ELSE UNDEFINED, LAMBDA b :
    IF a # NULL /\ b # NULL
    THEN (IF b = UNDEFINED THEN NaN ELSE Num(DayNumber(b) - DayNumber(a)))
    ELSE NULL)))

\* v.replace(/,/g, "")
RemoveCommas(s) == SelectSeq(s, LAMBDA c : c # ",")

\* length of the run of decimal digits of s that starts at position k
RECURSIVE DigitRun(_, _)
DigitRun(s, k) ==
  IF k <= Len(s) /\ IsDigit(s[k]) THEN 1 + DigitRun(s, k + 1) ELSE 0

\* parseFloat(s) on texts without sign, decimal point or exponent: leading
\* blanks are skipped and the leading digits are read; NaN without a digit
parseFloat(s) ==
  LET t == TrimStart(s)
      n == DigitRun(t, 1)
  IN IF n = 0 THEN NaN ELSE Num(DigitsToInt(SubSeq(t, 1, n)))

\* unary plus on a row value: undefined gives NaN, a blank text 0, a text
\* of digits its value, any other text NaN
ToNumber(v) ==
  IF v = UNDEFINED THEN NaN
  ELSE LET t == Trim(v.v)
       IN IF t = <<>> THEN Num(0)
          ELSE IF AllDigits(t) THEN Num(DigitsToInt(t)) ELSE NaN

\* x > n in JavaScript: false for NaN
GreaterThan(x, n) == x.t = "num" /\ x.v > n

\* toNum(v): number | null
toNum(v) ==
  IF v.t = "num" THEN v
  ELSE IF v.t = "str"
       THEN With(parseFloat(RemoveCommas(v.v)), LAMBDA n :
              IF n.t = "num" THEN n ELSE NULL)
       ELSE NULL

T_land == <<"tu", "di">>       \* 土地
T_building == <<"jian2", "wu2">>   \* 建物
T_parking == <<"che", "wei">>       \* 車位
Colons == {":", "fwcolon"}             \* [:：]

RECURSIVE SkipSpaces(_, _)
SkipSpaces(s, k) == IF k <= Len(s) /\ IsSpace(s[k]) THEN SkipSpaces(s, k + 1) ELSE k

\* one alternative of pairRE at position i: label \s* [:：]? \s* (\d+).
\* [end |-> first position after the match, val |-> the count], end = 0 when
\* the alternative does not match at i.  \s* and [:：]? give nothing back
\* that would let \d+ match, so the greedy reading is the only one.
LabelledCountAt(s, i, label) ==
  IF i + Len(label) - 1 > Len(s) \/ SubSeq(s, i, i + Len(label) - 1) # label
  THEN [end |-> 0, val |-> 0]
  ELSE LET k1 == SkipSpaces(s, i + Len(label))
           k2 == IF k1 <= Len(s) /\ s[k1] \in Colons THEN k1 + 1 ELSE k1
           k3 == SkipSpaces(s, k2)
           n == DigitRun(s, k3)
           \* without the colon the two \s* are adjacent: same positions
       IN IF n = 0 THEN [end |-> 0, val |-> 0]
          ELSE [end |-> k3 + n, val |-> DigitsToInt(SubSeq(s, k3, k3 + n - 1))]

\* while ((m = pairRE.exec(raw)) !== null): every match overwrites its count
RECURSIVE PairScan(_, _, _)
PairScan(s, i, acc) ==
  IF i > Len(s) THEN acc
  ELSE With(LabelledCountAt(s, i, T_land), LAMBDA ml :
       With(LabelledCountAt(s, i, T_building), LAMBDA mb :
       With(LabelledCountAt(s, i, T_parking), LAMBDA mp :
         IF ml.end > 0 THEN PairScan(s, ml.end, [acc EXCEPT !.land = ml.val])
         ELSE IF mb.end > 0 THEN PairScan(s, mb.end, [acc EXCEPT !.building = mb.val])
         ELSE IF mp.end > 0 THEN PairScan(s, mp.end, [acc EXCEPT !.parking = mp.val])
         ELSE PairScan(s, i + 1, acc))))

\* raw.match(/\d+(?:\.\d+)?/g): the digit runs of s, left to right
RECURSIVE DigitRuns(_, _)
DigitRuns(s, i) ==
  IF i > Len(s) THEN <<>>
  ELSE LET n == DigitRun(s, i)
       IN IF n = 0 THEN DigitRuns(s, i + 1)
          ELSE <<DigitsToInt(SubSeq(s, i, i + n - 1))>> \o DigitRuns(s, i + n)

\* parseTransRatio(raw) of components/helpers.ts
parseTransRatio(raw) ==
  IF raw = UNDEFINED \/ raw.v = <<>> THEN [land |-> 0, building |-> 0, parking |-> 0]
  ELSE With(PairScan(raw.v, 1, [land |-> 0, building |-> 0, parking |-> 0]), LAMBDA r :
         IF r.land = 0 /\ r.building = 0 /\ r.parking = 0
         THEN With(DigitRuns(raw.v, 1), LAMBDA nums :
                IF Len(nums) >= 3
                THEN [land |-> nums[1], building |-> nums[2], parking |-> nums[3]]
                ELSE r)
         ELSE r)

T_ceng == <<"ceng">>          \* 層
T_basement == <<"di", "xia">>   \* 地下
T_ten == "shi10"            \* 十

\* digitMap of floorToNumber: 零 一 二 兩 三 四 五 六 七 八 九
DigitMapKeys == <<"ling", "yi1", "er", "liang", "san", "si", "wu5", "liu", "qi7", "ba", "jiu">>
DigitMapVals == <<0, 1, 2, 2, 3, 4, 5, 6, 7, 8, 9>>

InDigitMap(c) == \E i \in 1..Len(DigitMapKeys) : DigitMapKeys[i] = c

digitMap(c) == DigitMapVals[CHOOSE i \in 1..Len(DigitMapKeys) : DigitMapKeys[i] = c]

\* floorToNumber(chinese)
floorToNumber(chinese0) ==
  LET c1 == IF EndsWith(chinese0, T_ceng) THEN SubSeq(chinese0, 1, Len(chinese0) - 1)
            ELSE chinese0
      isNegative == StartsWith(c1, T_basement)
      chinese == IF isNegative THEN SubSeq(c1, 3, Len(c1)) ELSE c1
      tenIndex == IF \E i \in 1..Len(chinese) : chinese[i] = T_ten
                  THEN (CHOOSE i \in 1..Len(chinese) :
                          chinese[i] = T_ten /\ \A j \in 1..(i - 1) : chinese[j] # T_ten) - 1
                  ELSE -1
      result ==
        IF Len(chinese) = 1
        THEN (IF InDigitMap(chinese[1]) THEN digitMap(chinese[1]) ELSE 0)
        ELSE IF tenIndex # -1
             THEN LET tens == IF tenIndex = 0 THEN 1
                              ELSE IF InDigitMap(chinese[tenIndex]) THEN digitMap(chinese[tenIndex])
                              ELSE 1
                      ones == IF tenIndex + 2 <= Len(chinese) /\ InDigitMap(chinese[tenIndex + 2])
                              THEN digitMap(chinese[tenIndex + 2]) ELSE 0
                  IN tens * 10 + ones
             ELSE 0   \* digitMap[chinese] ?? 0: no key of digitMap has two characters
  IN IF isNegative THEN -result ELSE result

WholeBuilding == { <<"quan">>, <<"zheng", "dong">>, <<"zheng", "ceng">> }   \* 全 整棟 整層

\* floorChange(chinese); categories 透天厝 地下室 低樓層 中樓層 高樓層
floorChange(chinese) ==
  IF chinese \in WholeBuilding THEN "whole-building"
  ELSE With(floorToNumber(chinese), LAMBDA floor :
         IF floor < 0 THEN "basement"
         ELSE IF floor <= 10 THEN "low-floor"
         ELSE IF floor <= 20 THEN "mid-floor"
         ELSE IF floor > 20 THEN "high-floor"
         ELSE "NA")

\* mainUsage of purposeClassify, in Object.entries order
mainUsage ==
  << [type |-> "residential",   \* 住宅類
      usages |-> << <<"zhu", "zhai">>,
                   <<"zhu", "jia", "yong">>,
                   <<"ji", "he", "zhu", "zhai">>,
                   <<"duo", "hu", "zhu", "zhai">>,
                   <<"gong", "yu">> >>],
     [type |-> "mixed",         \* 住商混合
      usages |-> << <<"zhu", "shang">>,
                   <<"zhu", "gong2">>,
                   <<"zhu", "zhai", "dunhao", "dian", "pu">> >>],
     [type |-> "commercial",    \* 商業用途
      usages |-> << <<"shang", "ye">>,
                   <<"ban", "gong">>,
                   <<"shi", "wu", "suo">>,
                   <<"ling", "shou", "ye">>,
                   <<"dian", "pu">> >>],
     [type |-> "industrial",    \* 工業用途
      usages |-> << <<"gong2", "ye">>,
                   <<"gong2", "chang">>,
                   <<"chang", "fang">>,
                   <<"cang", "chu">> >>],
     [type |-> "special",       \* 特殊用途
      usages |-> << <<"fang2", "kong">>,
                   <<"yi">>,
                   <<"xue">>,
                   <<"fu", "li">>,
                   <<"su", "she">>,
                   <<"jiao", "tong">> >>],
     [type |-> "unknown",       \* 未知
      usages |-> << <<>> >>],
     [type |-> "other",         \* 其他
      usages |-> << <<"qi", "ta">> >>] >>

\* first entry of an ordered category table with a vocabulary word that is
\* a substring of text; "NA" when there is none
FirstCategory(table, field, text) ==
  IF \E i \in 1..Len(table) : \E j \in 1..Len(table[i][field]) :
        Includes(text, table[i][field][j])
  THEN table[CHOOSE i \in 1..Len(table) :
               /\ \E j \in 1..Len(table[i][field]) : Includes(text, table[i][field][j])
               /\ \A k \in 1..(i - 1) : \A j \in 1..Len(table[k][field]) :
                    ~Includes(text, table[k][field][j])].type
  ELSE "NA"

\* purposeClassify(purpose)
purposeClassify(purpose) == FirstCategory(mainUsage, "usages", purpose)

\* buildingType of buildingMaterialClassify, in Object.entries order
buildingType ==
  << [type |-> "reinforced-concrete",   \* 鋼筋混凝土造類
      materials |-> << <<"gang", "jin", "hun", "ning", "tu">>,
                      <<"fwR", "fwC">>,
                      <<"gang", "gu", "gang", "jin", "hun", "ning", "tu">>,
                      <<"gang", "gu", "hun", "ning", "tu">>,
                      <<"gang", "gu", "fwR", "fwC", "zao">> >>],
     [type |-> "reinforced-brick",      \* 加強磚造類
      materials |-> << <<"jia2", "qiang", "zhuan", "zao">>,
                      <<"zhuan", "zao">>,
                      <<"zhuan", "shi2", "zao">>,
                      <<"jia2", "qiang", "shi2", "zao">>,
                      <<"shi2", "zao">>,
                      <<"tu", "zhuan", "shi2", "hun", "he", "zao">> >>],
     [type |-> "steel-frame",           \* 鋼骨類
      materials |-> << <<"gang", "gu", "zao">>,
                      <<"gang", "gu">>,
                      <<"gang", "gou", "zao">> >>],
     [type |-> "wood",                  \* 木造類
      materials |-> << <<"mu">>,
                      <<"zhu2">> >>] >>

\* mutant of buildingMaterialClassify: the last matching category wins
buildingMaterialClassify_LastMatch(material) ==
  IF \E i \in 1..Len(buildingType) : \E j \in 1..Len(buildingType[i].materials) :
        Includes(material, buildingType[i].materials[j])
  THEN buildingType[CHOOSE i \in 1..Len(buildingType) :
         /\ \E j \in 1..Len(buildingType[i].materials) :
              Includes(material, buildingType[i].materials[j])
         /\ \A k \in (i + 1)..Len(buildingType) :
              \A j \in 1..Len(buildingType[k].materials) :
                ~Includes(material, buildingType[k].materials[j])].type
  ELSE "NA"

\* buildingMaterialClassify(material)
buildingMaterialClassify(material) == FirstCategory(buildingType, "materials", material)

\* mutant of houseAgeClassify: the upper bounds are exclusive
houseAgeClassify_Exclusive(age) ==
  IF age < 0 THEN "NA"
  ELSE IF age < 5 THEN "new"
  ELSE IF age < 10 THEN "5-10"
  ELSE IF age < 20 THEN "10-20"
  ELSE IF age < 30 THEN "20-30"
  ELSE IF age < 40 THEN "30-40"
  ELSE "over-40"

\* houseAgeClassify(age); buckets 新屋 5-10年 10-20年 20-30年 30-40年 40年以上
houseAgeClassify(age) ==
  IF age < 0 THEN "NA"
  ELSE IF age <= 5 THEN "new"
  ELSE IF age <= 10 THEN "5-10"
  ELSE IF age <= 20 THEN "10-20"
  ELSE IF age <= 30 THEN "20-30"
  ELSE IF age <= 40 THEN "30-40"
  ELSE IF age > 40 THEN "over-40"
  ELSE "NA"

(***************************************************************************)
(* dayjs(iso).diff(dayjs(iso), "year") as clean.ts and transformRow use it *)
(***************************************************************************)
\* dayjs("YYYY-MM-DD"): local midnight of that day
dayjsISO(text) ==
  With(Split(text, {"-"}), LAMBDA parts :
    JSDate(DigitsToInt(parts[1]), DigitsToInt(parts[2]) - 1, DigitsToInt(parts[3])))

\* dayjs#daysInMonth
daysInMonth(y, m) == JSDate(y, m, 0).d

\* dayjs#add(n, "month"): the day is clamped to the length of the month
AddMonths(dt, n) ==
  With(JSDate(dt.y, dt.m - 1 + n, 1), LAMBDA first :
  With(daysInMonth(first.y, first.m), LAMBDA last :
    [y |-> first.y, m |-> first.m, d |-> IF dt.d < last THEN dt.d ELSE last]))

\* Utils.monthDiff(a, b) as a fraction [num, den] of months, den > 0
RECURSIVE monthDiff(_, _)
monthDiff(a, b) ==
  IF a.d < b.d
  THEN With(monthDiff(b, a), LAMBDA r : [num |-> -r.num, den |-> r.den])
  ELSE With((b.y - a.y) * 12 + (b.m - a.m), LAMBDA whole :
       With(AddMonths(a, whole), LAMBDA anchor :
       With(DayNumber(b) - DayNumber(anchor) < 0, LAMBDA c :
       With(AddMonths(a, whole + (IF c THEN -1 ELSE 1)), LAMBDA anchor2 :
       With(IF c THEN DayNumber(anchor) - DayNumber(anchor2)
            ELSE DayNumber(anchor2) - DayNumber(anchor), LAMBDA den :
         [num |-> -(whole * den + (DayNumber(b) - DayNumber(anchor))), den |-> den])))))

\* Utils.absFloor(num / den): rounds toward zero
absFloor(num, den) == IF num < 0 THEN -((-num) \div den) ELSE num \div den

\* a.diff(b, "year")
diffYears(a, b) == With(monthDiff(a, b), LAMBDA r : absFloor(r.num, 12 * r.den))

(***************************************************************************)
(* clean.ts: constants                                                     *)
(*                                                                         *)
(* A raw row is a record over RawCols; a column the CSV row does not have  *)
(* holds UNDEFINED.  Column tags and their CSV names:                      *)
(*   id 編號, district 鄉鎮市區, subject 交易標的, usage 主要用途,         *)
(*   ratio 租賃筆棟數, built 建築完成年月, lease 租賃年月日,               *)
(*   rooms/halls/baths 建物現況格局-房/廳/衛, total 總額元,                *)
(*   floor 租賃層次, material 主要建材, unitPrice 單價元平方公尺,          *)
(*   parkCat 車位類別, period 租賃期間, partition 建物現況格局-隔間,       *)
(*   mgmtOrg 有無管理組織, furnished 有無附傢俱, elevator 有無電梯,        *)
(*   manager 有無管理員, rentType 出租型態, service 租賃住宅服務,          *)
(*   equip 附屬設備, remark 備註, landArea 土地面積平方公尺,               *)
(*   zoneUrban 都市土地使用分區, zoneRural 非都市土地使用分區,             *)
(*   zoneRuralUse 非都市土地使用編定, parkArea 車位面積平方公尺,           *)
(*   parkTotal 車位總額元, source_file.                                    *)
(* Derived columns of a cleaned record:                                    *)
(*   age 屋齡, age-class 屋齡分類, land/building/parking 交易筆棟數-*,      *)
(*   lease-days 租賃天數, usage-class 主要用途分類,                        *)
(*   material-class 建材分類 (clean.ts), main-material-class 主要建材分類, *)
(*   floor-class4 租賃層次(四類) (clean.ts), floor-class 租賃層次分類,     *)
(*   <<"equip-", item>> 附屬設備-<item>.                                   *)
(***************************************************************************)
RawCols ==
  << "id", "district", "subject", "usage", "ratio", "built", "lease", "rooms",
     "halls", "baths", "total", "floor", "material", "unitPrice", "parkCat",
     "period", "partition", "mgmtOrg", "furnished", "elevator", "manager",
     "rentType", "service", "equip", "remark", "landArea", "zoneUrban", "zoneRural",
     "zoneRuralUse", "parkArea", "parkTotal", "source_file" >>

DROP_COLS ==
  { "subject", "landArea", "zoneUrban", "zoneRural", "zoneRuralUse", "ratio", "period",
    "lease", "built", "parkCat", "parkArea", "parkTotal", "equip", "remark",
    "source_file" }

\* PURPOSE_RE: the alternatives of the regular expression
PURPOSE_RE ==
  << <<"zhu", "jia", "yong">>,
     <<"zhu", "zhai">>,
     <<"ji", "he", "zhu", "zhai">>,
     <<"duo", "hu", "zhu", "zhai">>,
     <<"guo", "min", "zhu", "zhai">>,
     <<"gong", "yu">>,
     <<"shuang", "bing", "zhu", "zhai">>,
     <<"nong", "she">>,
     <<"zhu", "shang", "yong">>,
     <<"zhu", "gong2", "yong">>,
     <<"su", "she">>,
     <<"ji2", "su">>,
     <<"zhu", "su", "dan", "yuan">> >>

\* mutant of PURPOSE_RE_flags: the literal has the flag g
PURPOSE_RE_flags_Global == {"g"}

\* the flags of the literal PURPOSE_RE: none
PURPOSE_RE_flags == {}

\* alternative a matches text at the 0-based index i
AltMatchesAt(alts, a, text, i) ==
  /\ i + Len(alts[a]) <= Len(text)
  /\ SubSeq(text, i + 1, i + Len(alts[a])) = alts[a]

\* the end index of the match at i: alternatives are tried left to right
AltEndAt(alts, text, i) ==
  i + Len(alts[CHOOSE a \in 1..Len(alts) :
                 /\ AltMatchesAt(alts, a, text, i)
                 /\ \A b \in 1..(a - 1) : ~AltMatchesAt(alts, b, text, i)])

\* RegExp.prototype.exec for a pattern of literal alternatives: the search
\* starts at lastIndex if the flag g is set and at 0 otherwise; with g,
\* lastIndex becomes the end of the match, or 0 when nothing matches;
\* without g, lastIndex is left alone
RegExpExec(alts, flags, li, text) ==
  With({ i \in (IF "g" \in flags THEN li ELSE 0)..Len(text) :
           \E a \in 1..Len(alts) : AltMatchesAt(alts, a, text, i) }, LAMBDA starts :
    IF starts = {}
    THEN [found |-> FALSE, lastIndex |-> IF "g" \in flags THEN 0 ELSE li]
    ELSE [found |-> TRUE,
          lastIndex |-> IF "g" \in flags
                        THEN AltEndAt(alts, text, CHOOSE i \in starts : \A j \in starts : i <= j)
                        ELSE li])

\* PURPOSE_RE.test(text)
PURPOSE_RE_test(text) == RegExpExec(PURPOSE_RE, PURPOSE_RE_flags, lastIndex, text).found

\* PURPOSE_RE.lastIndex after PURPOSE_RE.test(row["主要用途"] ?? "")
PURPOSE_RE_after(row) ==
  RegExpExec(PURPOSE_RE, PURPOSE_RE_flags, lastIndex, Coalesce(row.usage, Str(<<>>)).v).lastIndex

EQUIP_SEP == {"dunhao", ",", "fwcomma"}    \* /[、,，]/

MAX_LAYOUT == 100

T_fangdi == <<"fang", "di">>                  \* 房地
T_seeOther == <<"jian", "qi", "ta", "deng", "ji3", "shi", "xiang">>   \* 見其他登記事項
T_seePermit == <<"jian", "shi3", "yong", "zhi", "zhao">>   \* 見使用執照
T_NA == <<"N", "A">>
T_you == <<"you">>                      \* 有
T_wu == <<"wu3">>                       \* 無

\* the 13 reasons, in the order of the type Reason / the record removed:
\* 用途不符 交易標的不符 租賃筆棟數不符 建築完成年月缺失 租賃年月日缺失
\* 租賃層次不明 主要建材不明 單價為零 無須車位出租相關資訊 房過大 廳過大
\* 衛過大 總額缺失
Reasons ==
  { "usage", "subject", "ratio", "built", "lease", "floor", "material",
    "unitPrice", "parking", "rooms", "halls", "baths", "total" }

NoReason == "null"           \* getRemovalReason returned null: the row is kept
TypeError == "TypeError"     \* the evaluation threw

(***************************************************************************)
(* JavaScript objects as ordered lists of (key, value)                     *)
(***************************************************************************)
hasOwnProperty(obj, k) == \E i \in 1..Len(obj) : obj[i].k = k

Get(obj, k) ==
  IF hasOwnProperty(obj, k)
  THEN obj[CHOOSE i \in 1..Len(obj) : obj[i].k = k].v
  ELSE UNDEFINED

\* obj[k] = v
Put(obj, k, v) ==
  IF hasOwnProperty(obj, k)
  THEN [i \in 1..Len(obj) |-> IF obj[i].k = k THEN [k |-> k, v |-> v] ELSE obj[i]]
  ELSE Append(obj, [k |-> k, v |-> v])

RECURSIVE PutAll(_, _)
PutAll(obj, kvs) ==
  IF kvs = <<>> THEN obj ELSE PutAll(Put(obj, Head(kvs).k, Head(kvs).v), Tail(kvs))

Keys(obj) == { obj[i].k : i \in 1..Len(obj) }

\* a classifier's category as the text the record carries
CatText(c) == IF c = "NA" THEN Str(T_NA) ELSE Str(<<c>>)

\* row[k]?.trim()
OptTrim(v) == IF v = UNDEFINED THEN UNDEFINED ELSE Str(Trim(v.v))

\* x || "NA" for a text or undefined
OrNA(v) == IF v = UNDEFINED \/ v.v = <<>> THEN Str(T_NA) ELSE v

\* (text ?? "").split(EQUIP_SEP).map(x => x.trim()).filter(Boolean)
EquipTokens(v) ==
  With(Split(Coalesce(v, Str(<<>>)).v, EQUIP_SEP), LAMBDA parts :
    SelectSeq([i \in 1..Len(parts) |-> Trim(parts[i])], LAMBDA x : x # <<>>))

\* the yes/no columns, in the order of the array literal
FlagCols == <<"partition", "mgmtOrg", "furnished", "elevator", "manager">>
FillCols == <<"rentType", "service">>

\* v === "有" ? 1 : v === "無" ? 0 : "NA"
FlagValue(v) ==
  IF v = Str(T_you) THEN Num(1) ELSE IF v = Str(T_wu) THEN Num(0) ELSE Str(T_NA)

\* v === "" ? "NA" : v
FillValue(v) == IF v = Str(<<>>) THEN Str(T_NA) ELSE v

\* the forEach over the five yes/no columns
YesNoFlags(row) ==
  [i \in 1..Len(FlagCols) |->
     [k |-> <<FlagCols[i]>>, v |-> FlagValue(OptTrim(row[FlagCols[i]]))]]

\* the forEach over 出租型態 and 租賃住宅服務
NAFills(row) ==
  [i \in 1..Len(FillCols) |->
     [k |-> <<FillCols[i]>>, v |-> FillValue(OptTrim(row[FillCols[i]]))]]

\* out[`附屬設備-${eq}`] = own.has(eq) ? 1 : 0, for every eq of EQUIP_COLS
EquipFlags(row, equipCols) ==
  With(EquipTokens(row.equip), LAMBDA own :
    [i \in 1..Len(equipCols) |->
       [k |-> <<"equip-">> \o equipCols[i],
        v |-> IF \E j \in 1..Len(own) : own[j] = equipCols[i] THEN Num(1) ELSE Num(0)]])

\* Object.entries(row): the columns the row has, in CSV order
Entries(row) ==
  With(SelectSeq(RawCols, LAMBDA c : row[c] # UNDEFINED), LAMBDA present :
    [i \in 1..Len(present) |-> [k |-> <<present[i]>>, v |-> row[present[i]]]])

\* mutant of CopiedColumns: no column is skipped
CopiedColumns_NoSkip(row, out, skip) ==
  SelectSeq(Entries(row), LAMBDA e : ~hasOwnProperty(out, e.k))

\* the raw columns copied to out: not of skip and not yet a key of out
CopiedColumns(row, out, skip) ==
  SelectSeq(Entries(row), LAMBDA e : e.k[1] \notin skip /\ ~hasOwnProperty(out, e.k))

\* dayjs(leaseISO).diff(dayjs(builtISO), "year")
Age(leaseISO, builtISO) ==
  IF leaseISO = NULL \/ builtISO = NULL THEN NaN
  ELSE Num(diffYears(dayjsISO(leaseISO.v), dayjsISO(builtISO.v)))

AgeClass(age) == IF age.t = "num" THEN CatText(houseAgeClassify(age.v)) ELSE Str(T_NA)

\* mutant of LeaseDays: the ?? "NA" is missing
LeaseDays_NoDefault(row) == periodToDays(Coalesce(row.period, Str(<<>>)).v)

\* periodToDays(row["租賃期間"] ?? "") ?? "NA"
LeaseDays(row) == Coalesce(periodToDays(Coalesce(row.period, Str(<<>>)).v), Str(T_NA))

(***************************************************************************)
(* clean.ts: the body of data.forEach                                      *)
(***************************************************************************)
\* land === 0 && building === 0
BothZero(r) == r.land = 0 /\ r.building = 0

\* mutant of cleanReason: the rule on 單價元平方公尺 is missing
cleanReason_NoUnitPrice(row) ==
  IF ~PURPOSE_RE_test(Coalesce(row.usage, Str(<<>>)).v) THEN "usage"
  ELSE IF row.subject = UNDEFINED THEN TypeError
  ELSE IF Includes(row.subject.v, T_fangdi) THEN "subject"
  ELSE IF BothZero(parseTransRatio(row.ratio)) THEN "ratio"
  ELSE IF rocToISO(Coalesce(row.built, Str(<<>>)).v) = NULL THEN "built"
  ELSE IF rocToISO(Coalesce(row.lease, Str(<<>>)).v) = NULL THEN "lease"
  ELSE IF GreaterThan(ToNumber(row.rooms), MAX_LAYOUT) THEN "rooms"
  ELSE IF GreaterThan(ToNumber(row.halls), MAX_LAYOUT) THEN "halls"
  ELSE IF GreaterThan(ToNumber(row.baths), MAX_LAYOUT) THEN "baths"
  ELSE IF toNum(row.total) = NULL THEN "total"
  ELSE IF row.floor = Str(T_seeOther) THEN "floor"
  ELSE IF row.material = Str(T_seeOther) \/ row.material = Str(T_seePermit) THEN "material"
  ELSE IF row.parkCat # Str(<<>>) THEN "parking"
  ELSE NoReason

\* the delete rules: the reason counted for the row, NoReason when the row
\* reaches the transform, TypeError when row["交易標的"].includes throws
cleanReason(row) ==
  IF ~PURPOSE_RE_test(Coalesce(row.usage, Str(<<>>)).v) THEN "usage"
  ELSE IF row.subject = UNDEFINED THEN TypeError
  ELSE IF Includes(row.subject.v, T_fangdi) THEN "subject"
  ELSE IF BothZero(parseTransRatio(row.ratio)) THEN "ratio"
  ELSE IF rocToISO(Coalesce(row.built, Str(<<>>)).v) = NULL THEN "built"
  ELSE IF rocToISO(Coalesce(row.lease, Str(<<>>)).v) = NULL THEN "lease"
  ELSE IF GreaterThan(ToNumber(row.rooms), MAX_LAYOUT) THEN "rooms"
  ELSE IF GreaterThan(ToNumber(row.halls), MAX_LAYOUT) THEN "halls"
  ELSE IF GreaterThan(ToNumber(row.baths), MAX_LAYOUT) THEN "baths"
  ELSE IF toNum(row.total) = NULL THEN "total"
  ELSE IF row.floor = Str(T_seeOther) THEN "floor"
  ELSE IF row.material = Str(T_seeOther) \/ row.material = Str(T_seePermit) THEN "material"
  ELSE IF row.unitPrice = Str(<<>>) THEN "unitPrice"
  ELSE IF row.parkCat # Str(<<>>) THEN "parking"
  ELSE NoReason

\* the transform: the record pushed to cleaned
cleanTransform(row, equipCols) ==
  With(rocToISO(Coalesce(row.lease, Str(<<>>)).v), LAMBDA leaseISO :
  With(rocToISO(Coalesce(row.built, Str(<<>>)).v), LAMBDA builtISO :
  With(parseTransRatio(row.ratio), LAMBDA ratio :
  With(Age(leaseISO, builtISO), LAMBDA age :
  With(PutAll(<<>>,
         << [k |-> <<"lease">>, v |-> leaseISO],
            [k |-> <<"built">>, v |-> builtISO],
            [k |-> <<"age">>, v |-> age],
            [k |-> <<"age-class">>, v |-> AgeClass(age)],
            [k |-> <<"land">>, v |-> Num(ratio.land)],
            [k |-> <<"building">>, v |-> Num(ratio.building)],
            [k |-> <<"parking">>, v |-> Num(ratio.parking)],
            [k |-> <<"lease-days">>, v |-> LeaseDays(row)],
            [k |-> <<"usage">>, v |-> row.usage],
            [k |-> <<"usage-class">>,
             v |-> CatText(purposeClassify(Coalesce(row.usage, Str(<<>>)).v))],
            [k |-> <<"material">>, v |-> OrNA(OptTrim(row.material))],
            [k |-> <<"rooms">>, v |-> ToNumber(row.rooms)],
            [k |-> <<"halls">>, v |-> ToNumber(row.halls)],
            [k |-> <<"baths">>, v |-> ToNumber(row.baths)],
            [k |-> <<"floor-class4">>,
             v |-> CatText(floorChange(OrNA(OptTrim(row.floor)).v))],
            [k |-> <<"material-class">>,
             v |-> CatText(buildingMaterialClassify(OrNA(OptTrim(row.material)).v))] >>
         \o YesNoFlags(row) \o NAFills(row)
         \o << [k |-> <<"total">>, v |-> toNum(row.total)] >>), LAMBDA out :
    PutAll(out, CopiedColumns(row, out, DROP_COLS) \o EquipFlags(row, equipCols)))))))

(***************************************************************************)
(* The refactored helpers: getRemovalReason and transformRow               *)
(***************************************************************************)
\* mutant of getRemovalReason: the count guard moved before the parking guard
getRemovalReason_RatioFirst(row, lb) ==
  IF ~PURPOSE_RE_test(Coalesce(row.usage, Str(<<>>)).v) THEN "usage"
  ELSE IF row.subject = UNDEFINED THEN TypeError
  ELSE IF Includes(row.subject.v, T_fangdi) THEN "subject"
  ELSE IF lb.land = 0 /\ lb.building = 0 THEN "ratio"
  ELSE IF row.parkCat # Str(<<>>) THEN "parking"
  ELSE IF row.floor = Str(T_seeOther) THEN "floor"
  ELSE IF row.material = Str(T_seeOther) \/ row.material = Str(T_seePermit) THEN "material"
  ELSE IF row.unitPrice = Str(<<>>) THEN "unitPrice"
  ELSE IF rocToISO(Coalesce(row.built, Str(<<>>)).v) = NULL THEN "built"
  ELSE IF rocToISO(Coalesce(row.lease, Str(<<>>)).v) = NULL THEN "lease"
  ELSE IF GreaterThan(ToNumber(row.rooms), MAX_LAYOUT) THEN "rooms"
  ELSE IF GreaterThan(ToNumber(row.halls), MAX_LAYOUT) THEN "halls"
  ELSE IF GreaterThan(ToNumber(row.baths), MAX_LAYOUT) THEN "baths"
  ELSE IF toNum(row.total) = NULL THEN "total"
  ELSE NoReason

\* getRemovalReason(row, {land, building}): Reason | null
getRemovalReason(row, lb) ==
  IF ~PURPOSE_RE_test(Coalesce(row.usage, Str(<<>>)).v) THEN "usage"
  ELSE IF row.subject = UNDEFINED THEN TypeError
  ELSE IF Includes(row.subject.v, T_fangdi) THEN "subject"
  ELSE IF row.parkCat # Str(<<>>) THEN "parking"
  ELSE IF lb.land = 0 /\ lb.building = 0 THEN "ratio"
  ELSE IF row.floor = Str(T_seeOther) THEN "floor"
  ELSE IF row.material = Str(T_seeOther) \/ row.material = Str(T_seePermit) THEN "material"
  ELSE IF row.unitPrice = Str(<<>>) THEN "unitPrice"
  ELSE IF rocToISO(Coalesce(row.built, Str(<<>>)).v) = NULL THEN "built"
  ELSE IF rocToISO(Coalesce(row.lease, Str(<<>>)).v) = NULL THEN "lease"
  ELSE IF GreaterThan(ToNumber(row.rooms), MAX_LAYOUT) THEN "rooms"
  ELSE IF GreaterThan(ToNumber(row.halls), MAX_LAYOUT) THEN "halls"
  ELSE IF GreaterThan(ToNumber(row.baths), MAX_LAYOUT) THEN "baths"
  ELSE IF toNum(row.total) = NULL THEN "total"
  ELSE NoReason

\* transformRow(row, {land, building}): CleanRow
transformRow(row, lb, equipCols) ==
  With(rocToISO(Coalesce(row.built, Str(<<>>)).v), LAMBDA builtISO :
  With(rocToISO(Coalesce(row.lease, Str(<<>>)).v), LAMBDA leaseISO :
  With(Age(leaseISO, builtISO), LAMBDA age :
  With(PutAll(<<>>,
         << [k |-> <<"lease">>, v |-> leaseISO],
            [k |-> <<"built">>, v |-> builtISO],
            [k |-> <<"age">>, v |-> age],
            [k |-> <<"age-class">>, v |-> AgeClass(age)],
            [k |-> <<"land">>, v |-> Num(lb.land)],
            [k |-> <<"building">>, v |-> Num(lb.building)],
            [k |-> <<"lease-days">>, v |-> LeaseDays(row)],
            [k |-> <<"usage">>, v |-> row.usage],
            [k |-> <<"usage-class">>,
             v |-> CatText(purposeClassify(Coalesce(row.usage, Str(<<>>)).v))],
            [k |-> <<"material">>, v |-> OrNA(OptTrim(row.material))],
            [k |-> <<"main-material-class">>,
             v |-> CatText(buildingMaterialClassify(OrNA(OptTrim(row.material)).v))],
            [k |-> <<"rooms">>, v |-> ToNumber(row.rooms)],
            [k |-> <<"halls">>, v |-> ToNumber(row.halls)],
            [k |-> <<"baths">>, v |-> ToNumber(row.baths)],
            [k |-> <<"floor">>, v |-> row.floor],
            [k |-> <<"floor-class">>,
             v |-> CatText(floorChange(OrNA(OptTrim(row.floor)).v))],
            [k |-> <<"total">>, v |-> toNum(row.total)] >>
         \o YesNoFlags(row) \o NAFills(row)), LAMBDA out :
    PutAll(out, CopiedColumns(row, out, DROP_COLS \cup {"equip", "period"})
                  \o EquipFlags(row, equipCols))))))

(***************************************************************************)
(* The refactored parseTransRatio                                          *)
(***************************************************************************)
\* length of the run of [\d.] of s that starts at position k
RECURSIVE DigitDotRun(_, _)
DigitDotRun(s, k) ==
  IF k <= Len(s) /\ (IsDigit(s[k]) \/ s[k] = ".") THEN 1 + DigitDotRun(s, k + 1) ELSE 0

\* label \s* ([\d.]+) \s* at position i: [end, val], end = 0 without a match
PlainCountAt(s, i, label) ==
  IF i + Len(label) - 1 > Len(s) \/ SubSeq(s, i, i + Len(label) - 1) # label
  THEN [end |-> 0, val |-> NaN]
  ELSE With(SkipSpaces(s, i + Len(label)), LAMBDA k :
       With(DigitDotRun(s, k), LAMBDA n :
         IF n = 0 THEN [end |-> 0, val |-> NaN]
         ELSE [end |-> SkipSpaces(s, k + n), val |-> parseFloat(SubSeq(s, k, k + n - 1))]))

\* /土地\s*([\d.]+)\s*建物\s*([\d.]+)\s*車位\s*([\d.]+)/ at position i.
\* The classes of the pieces are disjoint, so the greedy reading is the
\* only one.
RatioMatchAt(s, i) ==
  With(PlainCountAt(s, i, T_land), LAMBDA l :
  With(IF l.end = 0 THEN l ELSE PlainCountAt(s, l.end, T_building), LAMBDA b :
  With(IF b.end = 0 THEN b ELSE PlainCountAt(s, b.end, T_parking), LAMBDA p :
    IF p.end = 0 THEN <<>> ELSE <<l.val, b.val>>)))

\* parseTransRatio(raw) of the refactored helpers: {land, building}
parseTransRatio_part001(raw) ==
  With(Coalesce(raw, Str(<<>>)).v, LAMBDA s :
  With({ i \in 1..Len(s) : RatioMatchAt(s, i) # <<>> }, LAMBDA starts :
  With(IF starts = {} THEN <<>>
       ELSE RatioMatchAt(s, CHOOSE i \in starts : \A j \in starts : i <= j), LAMBDA m :
    [land |-> IF m # <<>> THEN m[1].v ELSE 0,
     building |-> IF m # <<>> THEN m[2].v ELSE 0])))

(***************************************************************************)
(* Raw rows                                                                *)
(***************************************************************************)
MaxEdits == 2     \* columns in which a row differs from BaseRow
MaxRows == 2      \* rows of a batch

\* 主要用途 住宅, 交易標的 建物, 租賃筆棟數 土地:1 建物:1, 租賃層次 5層,
\* 主要建材 加強磚造, 附屬設備 冷氣、冰箱, 出租型態 整棟, 鄉鎮市區 大安區
BaseRow ==
  [ id |-> Str(<<"1">>),
    district |-> Str(<<"da", "an", "qu">>),
    subject |-> Str(<<"jian2", "wu2">>),
    usage |-> Str(<<"zhu", "zhai">>),
    ratio |-> Str(<<"tu", "di", ":", "1", " ", "jian2", "wu2", ":", "1">>),
    built |-> Str(<<"0", "7", "4", "1", "0", "1", "5">>),
    lease |-> Str(<<"1", "1", "3", "0", "6", "0", "1">>),
    rooms |-> Str(<<"2">>),
    halls |-> Str(<<"1">>),
    baths |-> Str(<<"1">>),
    total |-> Str(<<"2", "5", "0", "0", "0">>),
    floor |-> Str(<<"5", "ceng">>),
    material |-> Str(<<"jia2", "qiang", "zhuan", "zao">>),
    unitPrice |-> Str(<<"3", "0", "0", "0", "0", "0">>),
    parkCat |-> Str(<<>>),
    period |-> Str(<<>>),
    partition |-> Str(T_you),
    mgmtOrg |-> Str(T_wu),
    furnished |-> Str(<<>>),
    elevator |-> Str(T_you),
    manager |-> Str(T_wu),
    rentType |-> Str(<<"zheng", "dong">>),
    service |-> Str(<<>>),
    equip |-> Str(<<"leng", "qi2", "dunhao", "bing2", "xiang2">>),
    remark |-> Str(<<>>),
    landArea |-> Str(<<"1", "2", ".", "5">>),
    zoneUrban |-> Str(<<"zhu">>),
    zoneRural |-> Str(<<>>),
    zoneRuralUse |-> Str(<<>>),
    parkArea |-> Str(<<"0">>),
    parkTotal |-> Str(<<"0">>),
    source_file |-> Str(<<"a_lvr_land_c.csv">>) ]

\* values with which a delete rule fires: 店舖, empty usage, 房地(土地+建物),
\* 坡道平面, 土地0建物0車位1, empty 租賃筆棟數, 見其他登記事項 (floor),
\* 見其他登記事項 and 見使用執照 (material), empty unit price, empty and
\* month-13 completion date, empty lease date, 101 rooms/halls/baths,
\* empty total
DefectEdits ==
  {
    [col |-> "usage", val |-> Str(<<"dian", "pu">>)],
    [col |-> "usage", val |-> Str(<<>>)],
    [col |-> "subject", val |-> Str(<<"fang", "di", "(", "tu", "di", "+", "jian2", "wu2", ")">>)],
    [col |-> "parkCat", val |-> Str(<<"po", "dao", "ping", "mian">>)],
    [col |-> "ratio", val |-> Str(<<"tu", "di", "0", "jian2", "wu2", "0", "che", "wei", "1">>)],
    [col |-> "ratio", val |-> Str(<<>>)],
    [col |-> "floor", val |-> Str(<<"jian", "qi", "ta", "deng", "ji3", "shi", "xiang">>)],
    [col |-> "material", val |-> Str(<<"jian", "qi", "ta", "deng", "ji3", "shi", "xiang">>)],
    [col |-> "material", val |-> Str(<<"jian", "shi3", "yong", "zhi", "zhao">>)],
    [col |-> "unitPrice", val |-> Str(<<>>)],
    [col |-> "built", val |-> Str(<<>>)],
    [col |-> "built", val |-> Str(<<"0", "7", "4", "1", "3", "1", "5">>)],
    [col |-> "lease", val |-> Str(<<>>)],
    [col |-> "rooms", val |-> Str(<<"1", "0", "1">>)],
    [col |-> "halls", val |-> Str(<<"1", "0", "1">>)],
    [col |-> "baths", val |-> Str(<<"1", "0", "1">>)],
    [col |-> "total", val |-> Str(<<>>)]
  }

\* values the delete rules accept: 住商用, 土地1建物2車位3, empty floor,
\* 十二層, empty material, a room count that is no number, 25,000, a
\* period range and a single date, 無 between blanks, empty 出租型態,
\* 代管, no equipment, 電視, 冷氣
BenignEdits ==
  {
    [col |-> "usage", val |-> Str(<<"zhu", "shang", "yong">>)],
    [col |-> "ratio", val |-> Str(<<"tu", "di", "1", "jian2", "wu2", "2", "che", "wei", "3">>)],
    [col |-> "floor", val |-> Str(<<>>)],
    [col |-> "floor", val |-> Str(<<"shi10", "er", "ceng">>)],
    [col |-> "material", val |-> Str(<<>>)],
    [col |-> "rooms", val |-> Str(<<"x">>)],
    [col |-> "total", val |-> Str(<<"2", "5", ",", "0", "0", "0">>)],
    [col |-> "period", val |-> Str(<<"1", "1", "3", "0", "6", "0", "1", "~", "1", "1", "4", "0", "5", "3", "1">>)],
    [col |-> "period", val |-> Str(<<"1", "1", "3", "0", "6", "0", "1">>)],
    [col |-> "partition", val |-> Str(<<" ", "wu3", " ">>)],
    [col |-> "rentType", val |-> Str(<<>>)],
    [col |-> "service", val |-> Str(<<"dai", "guan">>)],
    [col |-> "equip", val |-> Str(<<>>)],
    [col |-> "equip", val |-> Str(<<"dian2", "shi4", ",", " ", "leng", "qi2">>)]
  }

Edits == DefectEdits \cup BenignEdits

\* the sets of at most n edits, no two of the same column
RECURSIVE EditSets(_)
EditSets(n) ==
  IF n = 0 THEN {{}}
  ELSE LET prev == EditSets(n - 1)
       IN prev \cup UNION { { S \cup {e} : e \in { x \in Edits : \A y \in S : y.col # x.col } } :
                             S \in prev }

ApplyEdits(row, S) ==
  [c \in DOMAIN row |->
     IF \E e \in S : e.col = c THEN (CHOOSE e \in S : e.col = c).val ELSE row[c]]

RowPool == { ApplyEdits(BaseRow, S) : S \in EditSets(MaxEdits) }

\* the rows that accompany a pool row in a batch: the base row, a kept row
\* with 電視, 冷氣, a row of 店舖 with 冰箱，， 電視 and a row with a parking
\* category
SmallPool ==
  { BaseRow,
    ApplyEdits(BaseRow, {[col |-> "equip", val |-> Str(<<"dian2", "shi4", ",", " ", "leng", "qi2">>)]}),
    ApplyEdits(BaseRow, {[col |-> "usage", val |-> Str(<<"dian", "pu">>)],
                         [col |-> "equip", val |-> Str(<<"bing2", "xiang2", "fwcomma", "fwcomma", " ", "dian2", "shi4">>)]}),
    ApplyEdits(BaseRow, {[col |-> "parkCat", val |-> Str(<<"po", "dao", "ping", "mian">>)]}) }

\* 編號 is the position of the row in the file
WithIds(rows) == [i \in 1..Len(rows) |-> [rows[i] EXCEPT !.id = Str(NumText(i))]]

\* the batches of at most MaxRows rows: one row of pool, the others of SmallPool
BatchesOf(pool) ==
  UNION { { WithIds([i \in 1..n |-> IF i = p THEN r ELSE f[i]]) :
              r \in pool, f \in [1..n -> SmallPool], p \in 1..n } : n \in 1..MaxRows }

\* the columns a row may lack
AbsentCols == {"subject", "parkCat", "unitPrice", "floor", "material", "rentType", "service"}

AbsentPool ==
  { [ApplyEdits(BaseRow, S) EXCEPT ![c] = UNDEFINED] : S \in EditSets(1), c \in AbsentCols }

\* {land, building} handed to getRemovalReason and transformRow
Counts == { [land |-> l, building |-> b] : l \in 0..1, b \in 0..1 }

LB(r) == [land |-> r.land, building |-> r.building]

\* EQUIP_COLS as the refactored helpers may find it
Vocabularies ==
  { <<>>,
    << <<"leng", "qi2">>, <<"dian2", "shi4">> >>,
    << <<"bing2", "xiang2">> >> }

ZeroCounts == [r \in Reasons |-> 0]

\* removed[reason]++
Increment(counts, reason) == [counts EXCEPT ![reason] = @ + 1]

\* Object.values(removed).reduce((a, b) => a + b, 0)
RECURSIVE SumOver(_, _)
SumOver(counts, keys) ==
  IF keys = {} THEN 0
  ELSE LET k == CHOOSE x \in keys : TRUE IN counts[k] + SumOver(counts, keys \ {k})

totalRemoved(counts) == SumOver(counts, Reasons)

\* equipSet after the rows of rows: a Set keeps first-insertion order
RECURSIVE AddAll(_, _)
AddAll(acc, toks) ==
  IF toks = <<>> THEN acc
  ELSE AddAll(IF \E i \in 1..Len(acc) : acc[i] = Head(toks) THEN acc
              ELSE Append(acc, Head(toks)), Tail(toks))

\* mutant of CollectEquipSet: only the rows the delete rules keep contribute
RECURSIVE CollectEquipSet_KeptOnly(_, _)
CollectEquipSet_KeptOnly(acc, rows) ==
  IF rows = <<>> THEN acc
  ELSE CollectEquipSet_KeptOnly(
         IF cleanReason(Head(rows)) = NoReason
         THEN AddAll(acc, EquipTokens(Head(rows).equip)) ELSE acc, Tail(rows))

\* the pre-pass: equipSet after data.forEach over rows
RECURSIVE CollectEquipSet(_, _)
CollectEquipSet(acc, rows) ==
  IF rows = <<>> THEN acc
  ELSE CollectEquipSet(AddAll(acc, EquipTokens(Head(rows).equip)), Tail(rows))

(***************************************************************************)
(* The cleaning pass of clean.ts                                           *)
(***************************************************************************)
InitCleanOn(batches) ==
  /\ pc = "collect"
  /\ NoMergeRun
  /\ NoCrawlRun
  /\ data \in batches
  /\ EQUIP_COLS = <<>>
  /\ removed = ZeroCounts
  /\ cleaned = <<>>
  /\ idx = 0
  /\ arg = [fn |-> "clean"]
  /\ ret = NULL
  /\ lastIndex = 0

\* the pre-pass over every parsed row
CollectEquip ==
  /\ pc = "collect"
  /\ EQUIP_COLS' = CollectEquipSet(<<>>, data)
  /\ pc' = "clean"
  /\ UNCHANGED <<data, removed, cleaned, idx, arg, ret, mergeVars, lastIndex, crawlVars>>

\* mutant of RowOutcome: the delete rule counts the row and does not return
RowOutcome_NoReturn(row, reason) ==
  IF reason = TypeError
  THEN /\ pc' = "crashed"
       /\ UNCHANGED <<removed, cleaned, idx>>
  ELSE /\ pc' = pc
       /\ idx' = idx + 1
       /\ cleaned' = Append(cleaned, cleanTransform(row, EQUIP_COLS))
       /\ IF reason = NoReason
          THEN UNCHANGED removed
          ELSE removed' = Increment(removed, reason)

\* mutant of RowOutcome: the record is put in front of cleaned
RowOutcome_Unshift(row, reason) ==
  IF reason = TypeError
  THEN /\ pc' = "crashed"
       /\ UNCHANGED <<removed, cleaned, idx>>
  ELSE /\ pc' = pc
       /\ idx' = idx + 1
       /\ IF reason = NoReason
          THEN /\ cleaned' = <<cleanTransform(row, EQUIP_COLS)>> \o cleaned
               /\ UNCHANGED removed
          ELSE /\ removed' = Increment(removed, reason)
               /\ UNCHANGED cleaned

\* the end of one call of the data.forEach callback: the counter of the
\* reason, or the record pushed; a TypeError ends the process
RowOutcome(row, reason) ==
  IF reason = TypeError
  THEN /\ pc' = "crashed"
       /\ UNCHANGED <<removed, cleaned, idx>>
  ELSE /\ pc' = pc
       /\ idx' = idx + 1
       /\ IF reason = NoReason
          THEN /\ cleaned' = Append(cleaned, cleanTransform(row, EQUIP_COLS))
               /\ UNCHANGED removed
          ELSE /\ removed' = Increment(removed, reason)
               /\ UNCHANGED cleaned

\* mutant of ProcessRow: the callback takes the first item off EQUIP_COLS
ProcessRow_Shift ==
  /\ pc = "clean"
  /\ idx < Len(data)
  /\ RowOutcome(data[idx + 1], cleanReason(data[idx + 1]))
  /\ lastIndex' = PURPOSE_RE_after(data[idx + 1])
  /\ EQUIP_COLS' = IF EQUIP_COLS = <<>> THEN <<>> ELSE Tail(EQUIP_COLS)
  /\ UNCHANGED <<data, arg, ret, mergeVars, crawlVars>>

\* one call of the data.forEach callback
ProcessRow ==
  /\ pc = "clean"
  /\ idx < Len(data)
  /\ RowOutcome(data[idx + 1], cleanReason(data[idx + 1]))
  /\ lastIndex' = PURPOSE_RE_after(data[idx + 1])
  /\ UNCHANGED <<data, EQUIP_COLS, arg, ret, mergeVars, crawlVars>>

\* the file and the summary
Write ==
  /\ pc = "clean"
  /\ idx = Len(data)
  /\ ret' = [file |-> cleaned,
             totalRemoved |-> totalRemoved(removed),
             remaining |-> Len(cleaned)]
  /\ pc' = "done"
  /\ UNCHANGED <<data, EQUIP_COLS, removed, cleaned, idx, arg, mergeVars, lastIndex, crawlVars>>

(***************************************************************************)
(* Calls of the refactored helpers on one row                              *)
(***************************************************************************)
RowArgsOn(pool) ==
  { [fn |-> f, row |-> r, lb |-> c] :
      f \in {"getRemovalReason", "transformRow"},
      r \in pool,
      c \in Counts } \cup
  { [fn |-> f, row |-> r, lb |-> parseTransRatio_part001(r.ratio)] :
      f \in {"getRemovalReason", "transformRow"},
      r \in pool }

InitRowOn(pool) ==
  /\ pc = "call"
  /\ NoMergeRun
  /\ NoCrawlRun
  /\ arg \in RowArgsOn(pool)
  /\ EQUIP_COLS \in Vocabularies
  /\ ret = NULL
  /\ data = <<>>
  /\ removed = <<>>
  /\ cleaned = <<>>
  /\ idx = 0
  /\ lastIndex = 0

CallGetRemovalReason ==
  /\ pc = "call"
  /\ arg.fn = "getRemovalReason"
  /\ ret' = [reason |-> getRemovalReason(arg.row, arg.lb)]
  /\ lastIndex' = PURPOSE_RE_after(arg.row)
  /\ pc' = "returned"
  /\ UNCHANGED <<data, EQUIP_COLS, removed, cleaned, idx, arg, mergeVars, crawlVars>>

CallTransformRow ==
  /\ pc = "call"
  /\ arg.fn = "transformRow"
  /\ ret' = [out |-> transformRow(arg.row, arg.lb, EQUIP_COLS)]
  /\ pc' = "returned"
  /\ UNCHANGED <<data, EQUIP_COLS, removed, cleaned, idx, arg, mergeVars, lastIndex, crawlVars>>

Init == InitCleanOn(BatchesOf(RowPool)) \/ InitRowOn(RowPool)

Next ==
  \/ CollectEquip
  \/ ProcessRow
  \/ Write
  \/ CallGetRemovalReason
  \/ CallTransformRow

Spec == Init /\ [][Next]_vars

\* the same program on rows that lack a column
InitAbsent == InitCleanOn(BatchesOf(AbsentPool)) \/ InitRowOn(AbsentPool)

SpecAbsent == InitAbsent /\ [][Next]_vars

(***************************************************************************)
(* Admission and transformation: the properties                            *)
(***************************************************************************)
\* the order in which the rules are documented: 用途不符, 交易標的不符,
\* 無須車位出租相關資訊, 租賃筆棟數不符, 租賃層次不明, 主要建材不明,
\* 單價為零, 建築完成年月缺失, 租賃年月日缺失, 房過大, 廳過大, 衛過大,
\* 總額缺失
GuardOrder ==
  << "usage", "subject", "parking", "ratio", "floor", "material", "unitPrice",
     "built", "lease", "rooms", "halls", "baths", "total" >>

\* the condition of guard g on a row whose columns are all present
GuardHolds(g, row, lb) ==
  CASE g = "usage" -> ~PURPOSE_RE_test(row.usage.v)
    [] g = "subject" -> Includes(row.subject.v, T_fangdi)
    [] g = "parking" -> row.parkCat.v # <<>>
    [] g = "ratio" -> lb.land = 0 /\ lb.building = 0
    [] g = "floor" -> row.floor.v = T_seeOther
    [] g = "material" -> row.material.v \in {T_seeOther, T_seePermit}
    [] g = "unitPrice" -> row.unitPrice.v = <<>>
    [] g = "built" -> rocToISO(row.built.v) = NULL
    [] g = "lease" -> rocToISO(row.lease.v) = NULL
    [] g = "rooms" -> GreaterThan(ToNumber(row.rooms), MAX_LAYOUT)
    [] g = "halls" -> GreaterThan(ToNumber(row.halls), MAX_LAYOUT)
    [] g = "baths" -> GreaterThan(ToNumber(row.baths), MAX_LAYOUT)
    [] g = "total" -> toNum(row.total) = NULL

Matching(row, lb) == { i \in 1..Len(GuardOrder) : GuardHolds(GuardOrder[i], row, lb) }

\* the reason of the first guard of GuardOrder that holds, NoReason if none
FirstGuard(row, lb) ==
  With(Matching(row, lb), LAMBDA hit :
    IF hit = {} THEN NoReason
    ELSE GuardOrder[CHOOSE i \in hit : \A j \in hit : i <= j])

\* the counts clean.ts reads from the row
CountsOf(row) == LB(parseTransRatio(row.ratio))

\* the cleaned records made from the row with this 編號
RecordsOf(id) == { j \in 1..Len(cleaned) : Get(cleaned[j], <<"id">>) = id }

Returned(fn) == pc = "returned" /\ arg.fn = fn

InPass == pc \in {"clean", "done"}

\* C1: getRemovalReason returns the reason of the first guard, in the
\* documented order, that holds of the record, and null exactly when no
\* guard holds; one call gives one reason.
C1_FirstGuardInOrder ==
  Returned("getRemovalReason") =>
    /\ ret.reason = FirstGuard(arg.row, arg.lb)
    /\ (ret.reason = NoReason <=> Matching(arg.row, arg.lb) = {})

\* a record of which several guards hold got the reason of the first
C1_Witness ==
  /\ Returned("getRemovalReason")
  /\ GuardHolds("parking", arg.row, arg.lb)
  /\ GuardHolds("ratio", arg.row, arg.lb)
  /\ ret.reason = "parking"

\* C2: the pass of clean.ts counts every row under the reason the
\* documented order, as getRemovalReason implements it, gives for the row
\* (and keeps it exactly when that order gives none).
C2_SameReasonAsDocumented ==
  InPass =>
    /\ \A r \in Reasons :
         removed[r] = Cardinality({ i \in 1..idx :
                                      getRemovalReason(data[i], CountsOf(data[i])) = r })
    /\ \A i \in 1..idx :
         (RecordsOf(data[i].id) # {}) <=>
            getRemovalReason(data[i], CountsOf(data[i])) = NoReason

\* one step of the pass settles one row in exactly one way
OneOutcome ==
  \/ /\ cleaned' = cleaned
     /\ \E r \in Reasons : removed' = [removed EXCEPT ![r] = @ + 1]
  \/ /\ removed' = removed
     /\ Len(cleaned') = Len(cleaned) + 1
     /\ SubSeq(cleaned', 1, Len(cleaned)) = cleaned

\* C3: every row of the pass has exactly one outcome, a counted reason or
\* one cleaned record; after k rows the counters and the cleaned records
\* sum to k, and at the end, in the summary too, to the number of rows.
C3_OneOutcomePerRow ==
  /\ [](InPass => totalRemoved(removed) + Len(cleaned) = idx)
  /\ [](pc = "done" => /\ idx = Len(data)
                       /\ ret.totalRemoved + ret.remaining = Len(data))
  /\ [][pc = "clean" /\ idx' # idx => idx' = idx + 1 /\ OneOutcome]_vars

\* a pass over two rows ended with one row counted and one record
C3_Witness ==
  /\ pc = "done"
  /\ Len(data) = 2
  /\ ret.totalRemoved = 1
  /\ ret.remaining = 1

\* C4: a row is admitted exactly when no guard holds of it: the cleaned
\* records are those of the processed rows of which no guard holds, and
\* getRemovalReason returns null for exactly those records.
C4_AdmittedIffNoGuard ==
  /\ InPass =>
       \A i \in 1..idx :
         /\ Cardinality(RecordsOf(data[i].id)) =
              (IF Matching(data[i], CountsOf(data[i])) = {} THEN 1 ELSE 0)
  /\ InPass => \A j \in 1..Len(cleaned) :
                 \E i \in 1..idx : data[i].id = Get(cleaned[j], <<"id">>)
  /\ Returned("getRemovalReason") =>
       (ret.reason = NoReason <=> Matching(arg.row, arg.lb) = {})

\* a finished pass that kept a row and dropped one whose unit price is empty
C4_Witness ==
  /\ pc = "done"
  /\ Len(cleaned) >= 1
  /\ \E i \in 1..Len(data) :
       /\ Matching(data[i], CountsOf(data[i])) = {7}
       /\ RecordsOf(data[i].id) = {}

\* the fields the transform of clean.ts declares
DeclaredByClean ==
  { <<"lease">>, <<"built">>, <<"age">>, <<"age-class">>, <<"land">>, <<"building">>,
    <<"parking">>, <<"lease-days">>, <<"usage">>, <<"usage-class">>, <<"material">>,
    <<"material-class">>, <<"floor">>, <<"floor-class4">>, <<"rooms">>, <<"halls">>,
    <<"baths">>, <<"partition">>, <<"mgmtOrg">>, <<"furnished">>, <<"elevator">>,
    <<"manager">>, <<"rentType">>, <<"service">>, <<"total">> }

\* the fields transformRow declares
DeclaredByTransformRow ==
  { <<"lease">>, <<"built">>, <<"age">>, <<"age-class">>, <<"land">>, <<"building">>,
    <<"lease-days">>, <<"usage">>, <<"usage-class">>, <<"material">>,
    <<"main-material-class">>, <<"floor">>, <<"floor-class">>, <<"rooms">>, <<"halls">>,
    <<"baths">>, <<"partition">>, <<"mgmtOrg">>, <<"furnished">>, <<"elevator">>,
    <<"manager">>, <<"rentType">>, <<"service">>, <<"total">> }

EquipKeysOf(equipCols) == { <<"equip-">> \o equipCols[i] : i \in 1..Len(equipCols) }

AllDefined(rec, declared) ==
  \A k \in declared :
    /\ hasOwnProperty(rec, k)
    /\ Get(rec, k) # UNDEFINED
    /\ Get(rec, k) # NULL

\* C5: for an admitted row whose columns are all present, the transform
\* gives a record in which every declared field and every equipment flag
\* is present and is neither undefined nor null.
C5_TransformDefined ==
  /\ InPass =>
       \A j \in 1..Len(cleaned) :
         AllDefined(cleaned[j], DeclaredByClean \cup EquipKeysOf(EQUIP_COLS))
  /\ (Returned("transformRow") /\ getRemovalReason(arg.row, arg.lb) = NoReason) =>
       AllDefined(ret.out, DeclaredByTransformRow \cup EquipKeysOf(EQUIP_COLS))

\* transformRow returned for an admitted row with an empty 出租型態 and an
\* empty 租賃期間, with equipment flags to set
C5_Witness ==
  /\ Returned("transformRow")
  /\ getRemovalReason(arg.row, arg.lb) = NoReason
  /\ arg.row.rentType = Str(<<>>)
  /\ arg.row.period = Str(<<>>)
  /\ EQUIP_COLS # <<>>
  /\ Get(ret.out, <<"rentType">>) = Str(T_NA)
  /\ Get(ret.out, <<"lease-days">>) = Str(T_NA)

\* the row with every absent column set to the empty text
Blank(row) == [c \in DOMAIN row |-> IF row[c] = UNDEFINED THEN Str(<<>>) ELSE row[c]]

\* C6: on a record that lacks a column, admission and transformation do
\* what they do on the same record with the column empty: no error, the
\* same decision and reason, the same record.
C6_AbsentAsEmpty ==
  /\ pc # "crashed"
  /\ Returned("getRemovalReason") =>
       ret.reason = getRemovalReason(Blank(arg.row), arg.lb)
  /\ Returned("transformRow") =>
       ret.out = transformRow(Blank(arg.row), arg.lb, EQUIP_COLS)
  /\ InPass =>
       /\ \A r \in Reasons :
            removed[r] = Cardinality({ i \in 1..idx : cleanReason(Blank(data[i])) = r })
       /\ \A i \in 1..idx :
            IF cleanReason(Blank(data[i])) = NoReason
            THEN \E j \in 1..Len(cleaned) :
                   cleaned[j] = cleanTransform(Blank(data[i]), EQUIP_COLS)
            ELSE RecordsOf(data[i].id) = {}

\* the tokens of a raw 附屬設備 value
TokenSet(v) == With(EquipTokens(v), LAMBDA toks : { toks[j] : j \in 1..Len(toks) })

EquipKeys(rec) == { k \in Keys(rec) : k[1] = "equip-" }

\* rec has exactly the flags of vocabulary, 1 for the items of own, else 0
FlagsAre(rec, vocabulary, own) ==
  /\ EquipKeys(rec) = { <<"equip-">> \o t : t \in vocabulary }
  /\ \A t \in vocabulary :
       Get(rec, <<"equip-">> \o t) = (IF t \in own THEN Num(1) ELSE Num(0))

\* the raw row a cleaned record was made from
RowOf(rec) == data[CHOOSE i \in 1..Len(data) : data[i].id = Get(rec, <<"id">>)]

\* C7: every cleaned record of a batch has the same equipment flags, one
\* for each token of 附屬設備 of any raw row of the batch, rejected rows
\* included; a flag is 1 exactly for the tokens of the record's own row.
\* transformRow sets the flags of EQUIP_COLS in the same way.
C7_EquipmentClosure ==
  /\ InPass =>
       \A j \in 1..Len(cleaned) :
         FlagsAre(cleaned[j],
                  UNION { TokenSet(data[i].equip) : i \in 1..Len(data) },
                  TokenSet(RowOf(cleaned[j]).equip))
  /\ Returned("transformRow") =>
       FlagsAre(ret.out, { EQUIP_COLS[i] : i \in 1..Len(EQUIP_COLS) },
                TokenSet(arg.row.equip))

\* a cleaned record carries the flag, 0, of an item only a rejected row has
C7_Witness ==
  /\ pc = "done"
  /\ \E j \in 1..Len(cleaned) : \E i \in 1..Len(data) : \E t \in TokenSet(data[i].equip) :
       /\ cleanReason(data[i]) # NoReason
       /\ \A h \in 1..Len(data) :
            cleanReason(data[h]) = NoReason => t \notin TokenSet(data[h].equip)
       /\ Get(cleaned[j], <<"equip-">> \o t) = Num(0)

\* the row of the end-to-end example, other columns free
IsExampleRow(row) ==
  /\ row.usage = Str(<<"zhu", "zhai">>)
  /\ ~Includes(row.subject.v, T_fangdi)
  /\ row.parkCat = Str(<<>>)
  /\ row.ratio = Str(<<"tu", "di", ":", "1", " ", "jian2", "wu2", ":", "1">>)
  /\ row.floor = Str(<<"5", "ceng">>)
  /\ row.material = Str(<<"jia2", "qiang", "zhuan", "zao">>)
  /\ row.unitPrice = Str(<<"3", "0", "0", "0", "0", "0">>)
  /\ row.built = Str(<<"0", "7", "4", "1", "0", "1", "5">>)
  /\ row.lease = Str(<<"1", "1", "3", "0", "6", "0", "1">>)
  /\ row.rooms = Str(<<"2">>)
  /\ row.halls = Str(<<"1">>)
  /\ row.baths = Str(<<"1">>)
  /\ row.total = Str(<<"2", "5", "0", "0", "0">>)

\* the record the example expects; floorKey names the floor category
IsExampleRecord(rec, floorKey) ==
  /\ Get(rec, <<"lease">>) = Str(<<"2", "0", "2", "4", "-", "0", "6", "-", "0", "1">>)
  /\ Get(rec, <<"built">>) = Str(<<"1", "9", "8", "5", "-", "1", "0", "-", "1", "5">>)
  /\ Get(rec, <<"age">>) = Num(38)
  /\ Get(rec, <<"age-class">>) = Str(<<"30-40">>)
  /\ Get(rec, floorKey) = Str(<<"low-floor">>)
  /\ Get(rec, <<"land">>) = Num(1)
  /\ Get(rec, <<"building">>) = Num(1)
  /\ Get(rec, <<"total">>) = Num(25000)

\* the example through the pass of clean.ts
C8_ExampleInCleanPass ==
  InPass =>
    \A i \in 1..idx :
      IsExampleRow(data[i]) =>
        \E j \in RecordsOf(data[i].id) : IsExampleRecord(cleaned[j], <<"floor-class4">>)

\* C8: the example row is admitted and its record has lease date
\* 2024-06-01, completion date 1985-10-15, age 38 in 30-40年, floor
\* category 低樓層, land 1, building 1 and total 25000: in the pass of
\* clean.ts, and through the refactored helpers with the counts their
\* parseTransRatio reads from the row.
C8_EndToEnd ==
  /\ C8_ExampleInCleanPass
  /\ (/\ Returned("getRemovalReason")
      /\ IsExampleRow(arg.row)
      /\ arg.lb = parseTransRatio_part001(arg.row.ratio)) => ret.reason = NoReason
  /\ (/\ Returned("transformRow")
      /\ IsExampleRow(arg.row)
      /\ arg.lb = parseTransRatio_part001(arg.row.ratio)) =>
        IsExampleRecord(ret.out, <<"floor-class">>)

\* the pass of clean.ts kept the example row
C8_CleanPassWitness ==
  /\ pc = "done"
  /\ \E i \in 1..Len(data) : IsExampleRow(data[i]) /\ RecordsOf(data[i].id) # {}

(***************************************************************************)
(* Helper harness: one call of a helper of components/helpers.ts on a      *)
(* text drawn from a bounded set.                                          *)
(***************************************************************************)
MaxMonth == 13     \* month fields 0..MaxMonth are tried
MaxDay == 32       \* day fields 0..MaxDay are tried

\* offset-years tried: 1911, 1985, 2000 (leap), 2010, 2011, 2023,
\* 2024 (leap), 2100 (no leap), 2910
RocYears == {0, 74, 89, 99, 100, 112, 113, 189, 999}

\* YYYMMDD (width 3) or YYMMDD (width 2) as written in the CSV
DigitDate(y, m, d, w) ==
  PadStart(NumText(y), w) \o PadStart(NumText(m), 2) \o PadStart(NumText(d), 2)

Decorate(text, dotZero, spaced) ==
  LET t1 == IF dotZero THEN text \o <<".", "0">> ELSE text
  IN IF spaced THEN <<" ">> \o t1 \o <<" ">> ELSE t1

DigitDateArgs ==
  { [fn |-> "parseROC", kind |-> "digits", y |-> y, m |-> m, d |-> d, w |-> w,
     dotZero |-> z, text |-> Decorate(DigitDate(y, m, d, w), z, sp)] :
      y \in RocYears, m \in 0..MaxMonth, d \in 0..MaxDay, w \in {2, 3},
      z \in BOOLEAN, sp \in BOOLEAN }

NanTexts ==
  { <<a, b, c>> : a \in {"n", "N"}, b \in {"a", "A"}, c \in {"n", "N"} }

BlankArgs ==
  { [fn |-> "parseROC", kind |-> "blank", y |-> 0, m |-> 0, d |-> 0, w |-> 0,
     dotZero |-> FALSE, text |-> t] : t \in {<<>>, <<" ">>, <<" ", " ">>} }
  \cup
  { [fn |-> "parseROC", kind |-> "nan", y |-> 0, m |-> 0, d |-> 0, w |-> 0,
     dotZero |-> FALSE, text |-> Decorate(t, FALSE, sp)] :
      t \in NanTexts, sp \in BOOLEAN }

HelperArgs == { a \in DigitDateArgs : a.w = 3 \/ a.y < 100 } \cup BlankArgs

NoCleanRun ==
  /\ lastIndex = 0
  /\ data = <<>>
  /\ EQUIP_COLS = <<>>
  /\ removed = <<>>
  /\ cleaned = <<>>
  /\ idx = 0

InitHelpers ==
  /\ pc = "call"
  /\ NoMergeRun
  /\ NoCrawlRun
  /\ arg \in HelperArgs
  /\ ret = NULL
  /\ NoCleanRun

CallParseROC ==
  /\ pc = "call"
  /\ arg.fn = "parseROC"
  /\ ret' = [date |-> parseROC(arg.text), iso |-> rocToISO(arg.text)]
  /\ pc' = "returned"
  /\ UNCHANGED <<data, EQUIP_COLS, removed, cleaned, idx, arg, mergeVars, lastIndex, crawlVars>>

NextHelpers == CallParseROC

SpecHelpers == InitHelpers /\ [][NextHelpers]_vars

(***************************************************************************)
(* The calendar the claims speak of, stated without Date                   *)
(***************************************************************************)
IsLeapYear(y) == (y % 4 = 0 /\ y % 100 # 0) \/ y % 400 = 0

DaysInMonth(y, m) ==
  IF m = 2 THEN (IF IsLeapYear(y) THEN 29 ELSE 28)
  ELSE IF m \in {4, 6, 9, 11} THEN 30 ELSE 31

ValidYMD(y, m, d) == m \in 1..12 /\ d \in 1..DaysInMonth(y, m)

TwoDigits(n) == <<DigitChars[(n \div 10) + 1], DigitChars[(n % 10) + 1]>>

FourDigits(n) == TwoDigits(n \div 100) \o TwoDigits(n % 100)

\* C9: for a 7-digit YYYMMDD or 6-digit YYMMDD text with a month in 1..12
\* and a day that exists in that month of year YYY+1911, with or without a
\* trailing ".0", parseROC returns the date (YYY+1911, MM, DD) and rocToISO
\* returns it written YYYY-MM-DD.
C9_ParseROCValidDigits ==
  (pc = "returned" /\ arg.fn = "parseROC" /\ arg.kind = "digits"
     /\ ValidYMD(arg.y + 1911, arg.m, arg.d))
  => /\ ret.date = [t |-> "date", y |-> arg.y + 1911, m |-> arg.m, d |-> arg.d]
     /\ ret.iso = Str(FourDigits(arg.y + 1911) \o <<"-">> \o TwoDigits(arg.m)
                        \o <<"-">> \o TwoDigits(arg.d))

\* a 6-digit text with a trailing ".0" naming 29 February of a leap year
C9_Witness ==
  /\ pc = "returned" /\ arg.fn = "parseROC" /\ arg.kind = "digits"
  /\ arg.w = 2 /\ arg.dotZero /\ arg.y = 89 /\ arg.m = 2 /\ arg.d = 29
  /\ ret.date # NULL

\* C10: parseROC returns null for the empty text, for "nan" in any letter
\* case, and for every 6- or 7-digit text whose month is outside 1..12 or
\* whose day does not exist in that month; rocToISO is null with it.
C10_ParseROCUnparsable ==
  (pc = "returned" /\ arg.fn = "parseROC"
     /\ \/ arg.kind \in {"blank", "nan"}
        \/ arg.kind = "digits" /\ ~ValidYMD(arg.y + 1911, arg.m, arg.d))
  => ret.date = NULL /\ ret.iso = NULL

\* 30 February, which a rolling Date would turn into 1 or 2 March
C10_Witness ==
  /\ pc = "returned" /\ arg.fn = "parseROC" /\ arg.kind = "digits"
  /\ arg.m = 2 /\ arg.d = 30 /\ ret.date = NULL

(***************************************************************************)
(* Text harness: one call of a helper on a text or number whose parts are  *)
(* recorded next to it in the argument.                                    *)
(***************************************************************************)
\* the calendar day count of a date, without Date
RECURSIVE DaysBeforeMonth(_, _)
DaysBeforeMonth(y, m) == IF m <= 1 THEN 0 ELSE DaysInMonth(y, m - 1) + DaysBeforeMonth(y, m - 1)

OrdinalDay(y, m, d) ==
  (y - 1) * 365 + ((y - 1) \div 4) - ((y - 1) \div 100) + ((y - 1) \div 400)
    + DaysBeforeMonth(y, m) + d

\* offset-years 1916, 1985, 2024 and days tried in the separated form
SepYears == {5, 74, 113}
SepMonths == {1, 2, 6, 10, 12}
SepDays == {1, 9, 10, 29, 31}

\* Y<sep>M<sep>D: the year written plainly or padded to three digits, the
\* month and the day written plainly or with a leading zero
SepDate(y, m, d, s1, s2, py, pm, pd) ==
  (IF py THEN PadStart(NumText(y), 3) ELSE NumText(y)) \o <<s1>>
    \o (IF pm THEN PadStart(NumText(m), 2) ELSE NumText(m)) \o <<s2>>
    \o (IF pd THEN PadStart(NumText(d), 2) ELSE NumText(d))

SepDateArgs ==
  { [fn |-> "parseROC", kind |-> "sep", y |-> y, m |-> m, d |-> d,
     s1 |-> s1, s2 |-> s2, py |-> py, pm |-> pm, pd |-> pd,
     text |-> SepDate(y, m, d, s1, s2, py, pm, pd)] :
      y \in SepYears, m \in SepMonths, d \in SepDays,
      s1 \in YearSeps, s2 \in MonthSeps,
      py \in BOOLEAN, pm \in BOOLEAN, pd \in BOOLEAN }

\* one side of a 租賃期間 range: its text and, when it names a date, the date
PeriodSides ==
  { [text |-> <<>>, ok |-> FALSE, y |-> 0, m |-> 0, d |-> 0],
    [text |-> <<"x">>, ok |-> FALSE, y |-> 0, m |-> 0, d |-> 0],
    [text |-> <<"1", "1", "3", "0", "6", "3", "1">>, ok |-> FALSE, y |-> 0, m |-> 0, d |-> 0],
    [text |-> <<"1", "1", "3", "0", "6", "0", "1">>, ok |-> TRUE, y |-> 2024, m |-> 6, d |-> 1],
    [text |-> <<"1", "1", "3", "0", "2", "2", "8">>, ok |-> TRUE, y |-> 2024, m |-> 2, d |-> 28],
    [text |-> <<"1", "1", "4", "0", "5", "3", "1">>, ok |-> TRUE, y |-> 2025, m |-> 5, d |-> 31],
    [text |-> <<" ", "9", "9", "1", "2", "3", "1">>, ok |-> TRUE, y |-> 2010, m |-> 12, d |-> 31] }

PeriodArgs ==
  { [fn |-> "periodToDays", kind |-> "single", a |-> a, b |-> a, text |-> a.text] :
      a \in PeriodSides }
  \cup
  { [fn |-> "periodToDays", kind |-> "range", a |-> a, b |-> b,
     text |-> a.text \o <<"~">> \o b.text] : a \in PeriodSides, b \in PeriodSides }

CallPeriodToDays ==
  /\ pc = "call"
  /\ arg.fn = "periodToDays"
  /\ ret' = [days |-> periodToDays(arg.text),
             field |-> LeaseDays([period |-> Str(arg.text)])]
  /\ pc' = "returned"
  /\ UNCHANGED <<data, EQUIP_COLS, removed, cleaned, idx, arg, mergeVars, lastIndex, crawlVars>>

\* 租賃筆棟數 texts: labelled counts in some order, then unlabelled numbers
RatioLabels == {"land", "building", "parking"}
RatioVals == {0, 1, 12}

LabelTokens(l) ==
  IF l = "land" THEN T_land ELSE IF l = "building" THEN T_building ELSE T_parking

\* the sequences of at most three pairs [label, val] with distinct labels
LabelledPairs ==
  UNION { { p \in [1..n -> [label : RatioLabels, val : RatioVals]] :
              \A i, j \in 1..n : i # j => p[i].label # p[j].label } : n \in 0..3 }

\* ("", "") as in 土地1建物2車位3, (":", " ") as in 土地:1 建物:1, and the
\* full-width colon
RatioStyles ==
  { [colon |-> <<>>, sep |-> <<>>],
    [colon |-> <<":">>, sep |-> <<" ">>],
    [colon |-> <<"fwcolon">>, sep |-> <<" ">>] }

ExtraNumbers == { <<>>, <<1, 1, 0>>, <<5>>, <<2, 1>>, <<1, 2, 3, 4>> }

RECURSIVE JoinPairs(_, _)
JoinPairs(pairs, style) ==
  IF pairs = <<>> THEN <<>>
  ELSE LabelTokens(Head(pairs).label) \o style.colon \o NumText(Head(pairs).val)
         \o (IF Len(pairs) > 1 THEN style.sep ELSE <<>>) \o JoinPairs(Tail(pairs), style)

RECURSIVE JoinNumbers(_)
JoinNumbers(nums) ==
  IF nums = <<>> THEN <<>>
  ELSE NumText(Head(nums)) \o (IF Len(nums) > 1 THEN <<" ">> ELSE <<>>) \o JoinNumbers(Tail(nums))

RatioText(pairs, style, extra) ==
  JoinPairs(pairs, style)
    \o (IF pairs # <<>> /\ extra # <<>> THEN <<" ">> ELSE <<>>)
    \o JoinNumbers(extra)

RatioArgs ==
  { [fn |-> "parseTransRatio", pairs |-> p, style |-> st, extra |-> x,
     text |-> RatioText(p, st, x)] :
      p \in LabelledPairs, st \in RatioStyles, x \in ExtraNumbers }

CallParseTransRatio ==
  /\ pc = "call"
  /\ arg.fn = "parseTransRatio"
  /\ ret' = [helpers |-> parseTransRatio(Str(arg.text)),
             part001 |-> parseTransRatio_part001(Str(arg.text))]
  /\ pc' = "returned"
  /\ UNCHANGED <<data, EQUIP_COLS, removed, cleaned, idx, arg, mergeVars, lastIndex, crawlVars>>

MaxAge == 45     \* ages -3..MaxAge are classified

AgeArgs == { [fn |-> "houseAgeClassify", age |-> a] : a \in (0 - 3)..MaxAge }

CallHouseAgeClassify ==
  /\ pc = "call"
  /\ arg.fn = "houseAgeClassify"
  /\ ret' = [class |-> houseAgeClassify(arg.age)]
  /\ pc' = "returned"
  /\ UNCHANGED <<data, EQUIP_COLS, removed, cleaned, idx, arg, mergeVars, lastIndex, crawlVars>>

\* floor numerals 0..MaxFloorNumeral, written with Arabic digits or in
\* Chinese: 零 .. 九, 十, 十一 .. 十九, 二十, 二十一 .. 九十九
MaxFloorNumeral == 99

ChineseDigits == <<"ling", "yi1", "er", "san", "si", "wu5", "liu", "qi7", "ba", "jiu">>

ChineseNumeral(n) ==
  IF n < 10 THEN <<ChineseDigits[n + 1]>>
  ELSE (IF n < 20 THEN <<>> ELSE <<ChineseDigits[(n \div 10) + 1]>>) \o <<T_ten>>
         \o (IF n % 10 = 0 THEN <<>> ELSE <<ChineseDigits[(n % 10) + 1]>>)

FloorNumeralArgs ==
  { [fn |-> "floorChange", kind |-> "numeral", n |-> n, style |-> st,
     basement |-> b, suffix |-> c,
     text |-> (IF b THEN T_basement ELSE <<>>)
                \o (IF st = "arabic" THEN NumText(n) ELSE ChineseNumeral(n))
                \o (IF c THEN T_ceng ELSE <<>>)] :
      n \in 0..MaxFloorNumeral, st \in {"arabic", "chinese"},
      b \in BOOLEAN, c \in BOOLEAN }

\* texts that are no floor numeral: NA, x, B1, 見其他登記事項, 層
OtherFloorTexts ==
  { <<"N", "A">>, <<"x">>, <<"B", "1">>, T_seeOther, T_ceng }

FloorArgs ==
  FloorNumeralArgs
  \cup { [fn |-> "floorChange", kind |-> "whole", n |-> 0, style |-> "literal",
          basement |-> FALSE, suffix |-> FALSE, text |-> t] : t \in WholeBuilding }
  \cup { [fn |-> "floorChange", kind |-> "other", n |-> 0, style |-> "literal",
          basement |-> FALSE, suffix |-> FALSE, text |-> t] : t \in OtherFloorTexts }

\* floorChange(text), and floorChange(row["租賃層次"]?.trim() || "NA") as
\* the transformer calls it
CallFloorChange ==
  /\ pc = "call"
  /\ arg.fn = "floorChange"
  /\ ret' = [class |-> floorChange(arg.text),
             field |-> floorChange(OrNA(OptTrim(Str(arg.text))).v)]
  /\ pc' = "returned"
  /\ UNCHANGED <<data, EQUIP_COLS, removed, cleaned, idx, arg, mergeVars, lastIndex, crawlVars>>

\* every vocabulary word of a category table
Vocabulary(table, field) ==
  UNION { { table[i][field][j] : j \in 1..Len(table[i][field]) } : i \in 1..Len(table) }

\* 主要用途 texts: the vocabulary words, 其他, 農舍, 其他住宅, 住宅、店舖,
\* 店舖住宅, NA, x
PurposeTexts ==
  Vocabulary(mainUsage, "usages")
  \cup { <<"qi", "ta">>, <<"nong", "she">>, <<"qi", "ta", "zhu", "zhai">>, <<"zhu", "zhai", "dunhao", "dian", "pu">>,
         <<"dian", "pu", "zhu", "zhai">>, <<"N", "A">>, <<"x">> }

PurposeArgs == { [fn |-> "purposeClassify", text |-> t] : t \in PurposeTexts }

CallPurposeClassify ==
  /\ pc = "call"
  /\ arg.fn = "purposeClassify"
  /\ ret' = [class |-> purposeClassify(arg.text)]
  /\ pc' = "returned"
  /\ UNCHANGED <<data, EQUIP_COLS, removed, cleaned, idx, arg, mergeVars, lastIndex, crawlVars>>

\* 主要建材 texts: the vocabulary words, 鋼骨鋼筋混凝土造, 木石造, 鋼骨ＲＣ,
\* 見使用執照, NA, the empty text
MaterialTexts ==
  Vocabulary(buildingType, "materials")
  \cup { <<"gang", "gu", "gang", "jin", "hun", "ning", "tu", "zao">>, <<"mu", "shi2", "zao">>, <<"gang", "gu", "fwR", "fwC">>, T_seePermit,
         <<"N", "A">>, <<>> }

MaterialArgs == { [fn |-> "buildingMaterialClassify", text |-> t] : t \in MaterialTexts }

\* buildingMaterialClassify(text), and
\* buildingMaterialClassify(row["主要建材"]?.trim() || "NA") of clean.ts
CallBuildingMaterialClassify ==
  /\ pc = "call"
  /\ arg.fn = "buildingMaterialClassify"
  /\ ret' = [class |-> buildingMaterialClassify(arg.text),
             field |-> buildingMaterialClassify(OrNA(OptTrim(Str(arg.text))).v)]
  /\ pc' = "returned"
  /\ UNCHANGED <<data, EQUIP_COLS, removed, cleaned, idx, arg, mergeVars, lastIndex, crawlVars>>

TextArgs ==
  SepDateArgs \cup PeriodArgs \cup RatioArgs \cup AgeArgs \cup FloorArgs
    \cup PurposeArgs \cup MaterialArgs

InitText ==
  /\ pc = "call"
  /\ NoMergeRun
  /\ NoCrawlRun
  /\ arg \in TextArgs
  /\ ret = NULL
  /\ NoCleanRun

NextText ==
  \/ CallParseROC
  \/ CallPeriodToDays
  \/ CallParseTransRatio
  \/ CallHouseAgeClassify
  \/ CallFloorChange
  \/ CallPurposeClassify
  \/ CallBuildingMaterialClassify

SpecText == InitText /\ [][NextText]_vars

(***************************************************************************)
(* Properties of the helpers                                               *)
(***************************************************************************)
\* C11: for every separated text Y<sep>M<sep>D with a 1 to 3 digit
\* offset-year, a separator of . / 年 - after the year and of . / 月 - after
\* the month, and a month and day that exist, written with or without a
\* leading zero, parseROC returns the date Y+1911, M, D.
C11_ParseROCSeparated ==
  (pc = "returned" /\ arg.fn = "parseROC" /\ arg.kind = "sep"
     /\ ValidYMD(arg.y + 1911, arg.m, arg.d))
  => ret.date = [t |-> "date", y |-> arg.y + 1911, m |-> arg.m, d |-> arg.d]

\* C11, the part that holds: the same when neither the month nor the day
\* is written with a leading zero.
C11_WithoutLeadingZero ==
  (pc = "returned" /\ arg.fn = "parseROC" /\ arg.kind = "sep"
     /\ ValidYMD(arg.y + 1911, arg.m, arg.d)
     /\ (arg.pm => arg.m >= 10) /\ (arg.pd => arg.d >= 10))
  => ret.date = [t |-> "date", y |-> arg.y + 1911, m |-> arg.m, d |-> arg.d]

\* what C12 expects of periodToDays: the days from the first date to the
\* second for a range of two dates, null otherwise
ExpectedDays(a) ==
  IF a.kind = "range" /\ a.a.ok /\ a.b.ok
  THEN Num(OrdinalDay(a.b.y, a.b.m, a.b.d) - OrdinalDay(a.a.y, a.a.m, a.a.d))
  ELSE NULL

\* C12: periodToDays returns null when a side of the "~" range is missing
\* or unparsable, a single date without "~" included, and otherwise the
\* number of days from the first date to the second; the 租賃天數 made of
\* it is a number or the text NA, never null and never NaN.
C12_PeriodToDays ==
  (pc = "returned" /\ arg.fn = "periodToDays")
  => /\ ret.days = ExpectedDays(arg)
     /\ ret.field = Str(T_NA) \/ ret.field.t = "num"

\* C12, the part that holds: every text with a "~".
C12_RangesOnly ==
  (pc = "returned" /\ arg.fn = "periodToDays" /\ arg.kind = "range")
  => /\ ret.days = ExpectedDays(arg)
     /\ ret.field = Str(T_NA) \/ ret.field.t = "num"

\* the count a text gives to a label: its labelled value, 0 when absent
LabelledValue(pairs, l) ==
  IF \E i \in 1..Len(pairs) : pairs[i].label = l
  THEN pairs[CHOOSE i \in 1..Len(pairs) : pairs[i].label = l].val
  ELSE 0

\* the numbers of the text, left to right
NumbersOf(a) == [i \in 1..Len(a.pairs) |-> a.pairs[i].val] \o a.extra

\* what C13 expects: the labelled counts when one of them is not 0,
\* otherwise the first three numbers of the text when it has three
ExpectedRatio(a) ==
  IF \E l \in RatioLabels : LabelledValue(a.pairs, l) # 0
  THEN [land |-> LabelledValue(a.pairs, "land"),
        building |-> LabelledValue(a.pairs, "building"),
        parking |-> LabelledValue(a.pairs, "parking")]
  ELSE IF Len(NumbersOf(a)) >= 3
       THEN [land |-> NumbersOf(a)[1], building |-> NumbersOf(a)[2],
             parking |-> NumbersOf(a)[3]]
       ELSE [land |-> 0, building |-> 0, parking |-> 0]

\* C13: parseTransRatio, in components/helpers.ts and in the refactored
\* helpers alike, reads the labelled counts 土地 / 建物 / 車位 in any order,
\* each with or without a colon, an absent label giving 0, and takes the
\* first three numbers of the text only when all labelled counts are 0.
C13_ParseTransRatio ==
  (pc = "returned" /\ arg.fn = "parseTransRatio")
  => /\ ret.helpers = ExpectedRatio(arg)
     /\ ret.part001.land = ExpectedRatio(arg).land
     /\ ret.part001.building = ExpectedRatio(arg).building

\* C13, the part that holds: parseTransRatio of components/helpers.ts.
C13_HelpersConform ==
  (pc = "returned" /\ arg.fn = "parseTransRatio") => ret.helpers = ExpectedRatio(arg)

\* the bucket C14 names for an age
ExpectedBucket(age) ==
  IF age < 0 THEN "NA"
  ELSE IF age \in 0..5 THEN "new"
  ELSE IF age \in 6..10 THEN "5-10"
  ELSE IF age \in 11..20 THEN "10-20"
  ELSE IF age \in 21..30 THEN "20-30"
  ELSE IF age \in 31..40 THEN "30-40"
  ELSE "over-40"

\* C14: houseAgeClassify gives NA below 0, 新屋 for 0..5, 5-10年 for 6..10,
\* 10-20年 for 11..20, 20-30年 for 21..30, 30-40年 for 31..40 and 40年以上
\* above 40.
C14_HouseAgeBuckets ==
  (pc = "returned" /\ arg.fn = "houseAgeClassify") => ret.class = ExpectedBucket(arg.age)

\* the inclusive bound 40 falls in 30-40年
C14_Witness ==
  pc = "returned" /\ arg.fn = "houseAgeClassify" /\ arg.age = 40 /\ ret.class = "30-40"

(***************************************************************************)
(* Rows that differ in their completion and lease dates                    *)
(***************************************************************************)
\* completion dates: long before the lease dates, one year and 364 days
\* before 2024-06-01, on it, one day, some months, one year and more than
\* one year after it
BuiltDates ==
  { [y |-> 1984, m |-> 5, d |-> 31], [y |-> 1985, m |-> 10, d |-> 15],
    [y |-> 2023, m |-> 6, d |-> 1], [y |-> 2023, m |-> 6, d |-> 2],
    [y |-> 2024, m |-> 6, d |-> 1], [y |-> 2024, m |-> 6, d |-> 2],
    [y |-> 2024, m |-> 10, d |-> 15], [y |-> 2025, m |-> 6, d |-> 1],
    [y |-> 2025, m |-> 12, d |-> 31] }

LeaseDates == { [y |-> 2024, m |-> 6, d |-> 1], [y |-> 2024, m |-> 12, d |-> 31] }

RocText(dt) == DigitDate(dt.y - ROC_OFFSET, dt.m, dt.d, 3)

AgePool ==
  { ApplyEdits(BaseRow, { [col |-> "built", val |-> Str(RocText(b))],
                          [col |-> "lease", val |-> Str(RocText(l))] }) :
      b \in BuiltDates, l \in LeaseDates }

InitAge == InitCleanOn(BatchesOf(AgePool)) \/ InitRowOn(AgePool)

SpecAge == InitAge /\ [][Next]_vars

\* the date a row of AgePool names in a column
DateNamed(text) == CHOOSE dt \in BuiltDates \cup LeaseDates : Str(RocText(dt)) = text

\* b is not later than l
NotLater(b, l) ==
  b.y < l.y \/ (b.y = l.y /\ (b.m < l.m \/ (b.m = l.m /\ b.d <= l.d)))

\* the years from b to l rounded down: the difference of the calendar
\* years, less one when the day of l comes earlier in the year than the
\* day of b
FloorYears(b, l) ==
  (l.y - b.y) - (IF l.m < b.m \/ (l.m = b.m /\ l.d < b.d) THEN 1 ELSE 0)

BucketText(c) == IF c = "NA" THEN Str(<<"N", "A">>) ELSE Str(<<c>>)

AgeAsClaimed(rec, row) ==
  /\ Get(rec, <<"age">>) = Num(FloorYears(DateNamed(row.built), DateNamed(row.lease)))
  /\ Get(rec, <<"age-class">>) =
       BucketText(ExpectedBucket(FloorYears(DateNamed(row.built), DateNamed(row.lease))))

\* C15: for every admitted row 屋齡 is the floor of the number of years from
\* the completion date to the lease date and 屋齡分類 is its bucket; a
\* completion date after the lease date gives a negative 屋齡 and NA.
C15_AgeIsFloor ==
  /\ InPass => \A j \in 1..Len(cleaned) : AgeAsClaimed(cleaned[j], RowOf(cleaned[j]))
  /\ (Returned("transformRow") /\ getRemovalReason(arg.row, arg.lb) = NoReason)
       => AgeAsClaimed(ret.out, arg.row)

\* C15, the part that holds: rows whose completion date is not later than
\* the lease date.
C15_NotAfterLease ==
  /\ InPass =>
       \A j \in 1..Len(cleaned) :
         NotLater(DateNamed(RowOf(cleaned[j]).built), DateNamed(RowOf(cleaned[j]).lease))
           => AgeAsClaimed(cleaned[j], RowOf(cleaned[j]))
  /\ (/\ Returned("transformRow")
      /\ getRemovalReason(arg.row, arg.lb) = NoReason
      /\ NotLater(DateNamed(arg.row.built), DateNamed(arg.row.lease)))
       => AgeAsClaimed(ret.out, arg.row)

(***************************************************************************)
(* Properties of the classifiers                                           *)
(***************************************************************************)
\* the category C16 names for the floor numeral n
ExpectedFloor(basement, n) ==
  IF basement THEN "basement"
  ELSE IF n <= 10 THEN "low-floor"
  ELSE IF n <= 20 THEN "mid-floor"
  ELSE "high-floor"

\* C16: floorChange, with or without a trailing 層, returns 透天厝 for 全,
\* 整棟 and 整層, 地下室 for the 地下 prefix followed by a floor numeral
\* (地下1層, 地下一層), and for a floor numeral n in 0..99 without the
\* prefix (3層, 十二層, 二十五層) 低樓層 up to 10, 中樓層 for 11..20 and
\* 高樓層 above 20.
C16_FloorChange ==
  (pc = "returned" /\ arg.fn = "floorChange")
  => /\ arg.kind = "whole" => ret.class = "whole-building"
     /\ arg.kind = "numeral" => ret.class = ExpectedFloor(arg.basement, arg.n)

\* C16, the part that holds: the whole-building literals and the numerals
\* written in Chinese, the basement floors 地下零 and 地下十 excepted.
C16_ChineseNumerals ==
  (pc = "returned" /\ arg.fn = "floorChange")
  => /\ arg.kind = "whole" => ret.class = "whole-building"
     /\ (/\ arg.kind = "numeral" /\ arg.style = "chinese"
         /\ (arg.basement => arg.n \notin {0, 10}))
          => ret.class = ExpectedFloor(arg.basement, arg.n)

\* C17: floorChange returns NA for every text that is neither a
\* whole-building literal nor a floor numeral, the NA the transformer
\* passes for an empty 租賃層次 included.
C17_FloorUnparsable ==
  (pc = "returned" /\ arg.fn = "floorChange" /\ arg.kind = "other")
  => ret.class = "NA" /\ ret.field = "NA"

\* the text has a word of the i-th vocabulary of the table
HasWordOf(table, field, i, text) ==
  \E j \in 1..Len(table[i][field]) : Includes(text, table[i][field][j])

\* the first of the categories i..n of the table with a word in the text
RECURSIVE FirstFrom(_, _, _, _, _)
FirstFrom(table, field, i, n, text) ==
  IF i > n THEN "NA"
  ELSE IF HasWordOf(table, field, i, text) THEN table[i].type
  ELSE FirstFrom(table, field, i + 1, n, text)

\* what C18 expects: the first of 住宅類 住商混合 商業用途 工業用途 特殊用途
\* with a word in the text; otherwise 未知 for the empty text, 其他 for a
\* text with 其他, NA for any other
ExpectedPurpose(text) ==
  IF FirstFrom(mainUsage, "usages", 1, 5, text) # "NA"
  THEN FirstFrom(mainUsage, "usages", 1, 5, text)
  ELSE IF text = <<>> THEN "unknown"
  ELSE IF Includes(text, <<"qi", "ta">>) THEN "other"
  ELSE "NA"

\* C18: purposeClassify returns the first category, in the order 住宅類,
\* 住商混合, 商業用途, 工業用途, 特殊用途, 未知, 其他, with a vocabulary
\* word in the text; 未知 only for the empty text; 其他 for a text with 其他
\* that matches none of the first five, and NA for any other such text.
C18_PurposeClassify ==
  (pc = "returned" /\ arg.fn = "purposeClassify") => ret.class = ExpectedPurpose(arg.text)

\* C18, the part that holds: the empty text and the texts with a word of
\* one of the first five vocabularies.
C18_FirstFive ==
  (/\ pc = "returned" /\ arg.fn = "purposeClassify"
   /\ (arg.text = <<>> \/ FirstFrom(mainUsage, "usages", 1, 5, arg.text) # "NA"))
  => ret.class = ExpectedPurpose(arg.text)

\* C19: buildingMaterialClassify returns the first category, in the order
\* 鋼筋混凝土造類, 加強磚造類, 鋼骨類, 木造類, with a vocabulary word in the
\* text, and NA when there is none: 鋼骨鋼筋混凝土造 gets 鋼筋混凝土造類,
\* 加強磚造 gets 加強磚造類, and NA, also as the placeholder of an empty
\* 主要建材, gets NA.
C19_MaterialFirstCategory ==
  (pc = "returned" /\ arg.fn = "buildingMaterialClassify")
  => /\ ret.class = FirstFrom(buildingType, "materials", 1, 4, arg.text)
     /\ arg.text = <<"gang", "gu", "gang", "jin", "hun", "ning", "tu", "zao">> => ret.class = "reinforced-concrete"
     /\ arg.text = <<"jia2", "qiang", "zhuan", "zao">> => ret.class = "reinforced-brick"
     /\ arg.text = <<"N", "A">> => ret.class = "NA"
     /\ arg.text = <<>> => ret.field = "NA"

\* 鋼骨鋼筋混凝土造 has words of 鋼筋混凝土造類 and of 鋼骨類
C19_Witness ==
  /\ pc = "returned" /\ arg.fn = "buildingMaterialClassify"
  /\ arg.text = <<"gang", "gu", "gang", "jin", "hun", "ning", "tu", "zao">>
  /\ HasWordOf(buildingType, "materials", 1, arg.text)
  /\ HasWordOf(buildingType, "materials", 3, arg.text)
  /\ ret.class = "reinforced-concrete"

(***************************************************************************)
(* merge.ts: left join of rent_cln.csv with mrt.csv on 編號                *)
(*                                                                         *)
(* A row is an ordered list of (key, value); csv-parser gives every value  *)
(* as a text.  Column keys and their CSV names:                            *)
(*   id 編號, address 門牌, district 鄉鎮市區, x, y, station 最近捷運站,   *)
(*   distance.m. 捷運站距離.公尺., opened 通車日期,                        *)
(*   price 附近建物單位成交均價, lines 捷運線, transfer 轉乘站,            *)
(*   coord-x 座標 x, coord-y 座標 y, distance(m) 捷運站距離(公尺).         *)
(* A line column has the name of the line as its one token:                *)
(*   wenhu 文湖線, tamsui-xinyi 淡水信義線, xinbeitou 新北投支線,          *)
(*   songshan-xindian 松山新店線, xiaobitan 小碧潭支線,                    *)
(*   zhonghe-xinlu 中和新蘆線, bannan 板南線, circular 環狀線.             *)
(***************************************************************************)
lineCols ==
  << <<"wenhu">>, <<"tamsui-xinyi">>, <<"xinbeitou">>, <<"songshan-xindian">>,
     <<"xiaobitan">>, <<"zhonghe-xinlu">>, <<"bannan">>, <<"circular">> >>

mrtCols ==
  << <<"x">>, <<"y">>, <<"station">>, <<"distance.m.">> >> \o lineCols
    \o << <<"opened">>, <<"price">> >>

\* String(v)
JSString(v) ==
  IF v = UNDEFINED THEN <<"u", "n", "d", "e", "f", "i", "n", "e", "d">>
  ELSE IF v.t = "num" THEN NumText(v.v)
  ELSE v.v

\* String(r["編號"]).trim()
JoinKey(r) == Trim(JSString(Get(r, <<"id">>)))

\* delete obj[k]
Delete(obj, k) == SelectSeq(obj, LAMBDA e : e.k # k)

\* mutant of SetAll: a key that is in the map keeps its first row
RECURSIVE SetAll_FirstWins(_, _)
SetAll_FirstWins(map, rows) ==
  IF rows = <<>> THEN map
  ELSE SetAll_FirstWins(IF hasOwnProperty(map, JoinKey(Head(rows))) THEN map
                        ELSE Put(map, JoinKey(Head(rows)), Head(rows)), Tail(rows))

\* mrtRows.forEach((r) => mrtMap.set(String(r["編號"]).trim(), r)): a later
\* row with the same key replaces the earlier one
RECURSIVE SetAll(_, _)
SetAll(map, rows) ==
  IF rows = <<>> THEN map
  ELSE SetAll(Put(map, JoinKey(Head(rows)), Head(rows)), Tail(rows))

\* mrt?.[c] ?? ""
MrtValue(mrt, c) ==
  IF mrt = UNDEFINED THEN Str(<<>>) ELSE Coalesce(Get(mrt, c), Str(<<>>))

\* Number(v) === 1 for a trimmed text v made of an optional +, digits and
\* an optional decimal point followed by digits; any other text of the
\* rows modelled here is no number
NumberIsOne(v) ==
  With(IF v # <<>> /\ Head(v) = "+" THEN Tail(v) ELSE v, LAMBDA t :
  With(IF \E i \in 1..Len(t) : t[i] = "."
       THEN CHOOSE i \in 1..Len(t) : t[i] = "." /\ \A j \in 1..(i - 1) : t[j] # "."
       ELSE Len(t) + 1, LAMBDA dot :
    /\ dot > 1
    /\ AllDigits(SubSeq(t, 1, dot - 1))
    /\ DigitsToInt(SubSeq(t, 1, dot - 1)) = 1
    /\ \A j \in (dot + 1)..Len(t) : t[j] = "0"))

\* mutant of IsActive: every flag that is not empty counts
IsActive_NotEmpty(row, c) ==
  Trim(JSString(Coalesce(Get(row, c), Str(<<>>)))) # <<>>

\* the filter of activeLines
IsActive(row, c) ==
  With(Trim(JSString(Coalesce(Get(row, c), Str(<<>>)))), LAMBDA v :
    v # <<>> /\ NumberIsOne(v))

\* activeLines.join(",")
RECURSIVE JoinComma(_)
JoinComma(names) ==
  IF names = <<>> THEN <<>>
  ELSE Head(names) \o (IF Len(names) > 1 THEN <<",">> ELSE <<>>) \o JoinComma(Tail(names))

\* mutant of Rename: the column is copied and the old one stays
Rename_KeepOld(row, from, to) ==
  IF hasOwnProperty(row, from) THEN Put(row, to, Get(row, from)) ELSE row

\* if (from in row) { row[to] = row[from]; delete row[from] }
Rename(row, from, to) ==
  IF hasOwnProperty(row, from) THEN Delete(Put(row, to, Get(row, from)), from) ELSE row

\* the body of rentRows.map
JoinOne(rent, map) ==
  With(Get(map, JoinKey(rent)), LAMBDA mrt :
  With(PutAll(rent, [i \in 1..Len(mrtCols) |->
                       [k |-> mrtCols[i], v |-> MrtValue(mrt, mrtCols[i])]]), LAMBDA row :
  With(SelectSeq(lineCols, LAMBDA c : IsActive(row, c)), LAMBDA activeLines :
    Rename(Rename(Rename(
      PutAll(row, << [k |-> <<"lines">>, v |-> Str(JoinComma(activeLines))],
                     [k |-> <<"transfer">>,
                      v |-> IF Len(activeLines) >= 2 THEN Num(1) ELSE Num(0)] >>),
      <<"x">>, <<"coord-x">>), <<"y">>, <<"coord-y">>),
      <<"distance.m.">>, <<"distance(m)">>))))

\* mutant of PriceKept: the price is not trimmed
PriceKept_NoTrim(r) == JSString(Get(r, <<"price">>)) # <<>>

\* the price filter: String(r["附近建物單位成交均價"]).trim() !== ""
PriceKept(r) == Trim(JSString(Get(r, <<"price">>))) # <<>>

\* Object.keys(filtered[0] || {})
HeadersOf(rows) ==
  IF rows = <<>> THEN <<>> ELSE [i \in 1..Len(rows[1]) |-> rows[1][i].k]

(***************************************************************************)
(* The files merge.ts reads                                                *)
(***************************************************************************)
MaxRent == 2     \* rows of rent_cln.csv
MaxMrt == 2      \* rows of mrt.csv

\* line flags of a row of mrt.csv, in the order of lineCols: no line; 文湖線
\* and 淡水信義線; 板南線 written 1.0; and " 1 ", x, empty, 2, 01, 0, 1, +1
FlagTexts ==
  [ none |-> << <<"0">>, <<"0">>, <<"0">>, <<"0">>, <<"0">>, <<"0">>, <<"0">>, <<"0">> >>,
    two |-> << <<"1">>, <<"1">>, <<"0">>, <<"0">>, <<"0">>, <<"0">>, <<"0">>, <<"0">> >>,
    decimal |-> << <<>>, <<>>, <<>>, <<>>, <<>>, <<>>, <<"1", ".", "0">>, <<>> >>,
    odd |-> << <<" ", "1", " ">>, <<"x">>, <<>>, <<"2">>, <<"0", "1">>, <<"0">>, <<"1">>,
               <<"+", "1">> >> ]

MrtRow(id, price, flags) ==
  << [k |-> <<"id">>, v |-> Str(id)],
     [k |-> <<"x">>, v |-> Str(<<"1", "2", "1", ".", "5">>)],
     [k |-> <<"y">>, v |-> Str(<<"2", "5", ".", "0">>)],
     [k |-> <<"station">>, v |-> Str(<<"s">> \o Trim(id))],
     [k |-> <<"distance.m.">>, v |-> Str(<<"3", "5", "0">>)] >>
  \o [i \in 1..Len(lineCols) |-> [k |-> lineCols[i], v |-> Str(flags[i])]]
  \o << [k |-> <<"opened">>, v |-> Str(<<"1", "9", "9", "6">>)],
        [k |-> <<"price">>, v |-> Str(price)] >>

\* rows of mrt.csv: 編號 1, " 2 ", 3, 4 with the prices 30, 45, 50, the
\* empty text and a blank; the row of 編號 3 has no price cell
MrtPool ==
  { MrtRow(<<"1">>, <<"3", "0">>, FlagTexts.two),
    MrtRow(<<"1">>, <<"4", "5">>, FlagTexts.decimal),
    MrtRow(<<"1">>, <<>>, FlagTexts.none),
    MrtRow(<<" ", "2", " ">>, <<>>, FlagTexts.none),
    MrtRow(<<" ", "2", " ">>, <<"3", "0">>, FlagTexts.odd),
    MrtRow(<<"4">>, <<" ">>, FlagTexts.two),
    MrtRow(<<"4">>, <<"5", "0">>, FlagTexts.odd),
    Delete(MrtRow(<<"3">>, <<"5", "0">>, FlagTexts.none), <<"price">>) }

\* rows of rent_cln.csv: 編號 1, " 1", 2, 3, 4, 9, and a row with 編號 9 that
\* has a column named 附近建物單位成交均價 of its own
RentRow(id) ==
  << [k |-> <<"id">>, v |-> Str(id)],
     [k |-> <<"address">>, v |-> Str(<<>>)],
     [k |-> <<"district">>, v |-> Str(<<"da", "an", "qu">>)] >>

RentPool ==
  { RentRow(id) : id \in { <<"1">>, <<" ", "1">>, <<"2">>, <<"3">>, <<"4">>, <<"9">> } }
  \cup { Put(RentRow(<<"9">>), <<"price">>, Str(<<"7", "7">>)) }

\* 門牌 tells the rows of a file apart: it is the position of the row
WithAddress(rows) ==
  [i \in 1..Len(rows) |-> Put(rows[i], <<"address">>, Str(NumText(i)))]

FilesOf(pool, lo, hi) ==
  UNION { { WithAddress(f) : f \in [1..n -> pool] } : n \in lo..hi }

RentFiles == FilesOf(RentPool, 1, MaxRent)

MrtFiles == UNION { [1..n -> MrtPool] : n \in 0..MaxMrt }

(***************************************************************************)
(* merge.ts: main                                                          *)
(***************************************************************************)
InitMerge ==
  /\ pc = "loading"
  /\ arg \in { [fn |-> "merge", rent |-> r, mrt |-> m] : r \in RentFiles, m \in MrtFiles }
  /\ ret = NULL
  /\ rentRows = <<>>
  /\ mrtRows = <<>>
  /\ mrtMap = <<>>
  /\ joined = <<>>
  /\ filtered = <<>>
  /\ NoCleanRun
  /\ NoCrawlRun

\* loadCsv(rentCsvPath) resolves, before or after the other load
LoadRent ==
  /\ pc \in {"loading", "mrt-loaded"}
  /\ rentRows' = arg.rent
  /\ pc' = IF pc = "loading" THEN "rent-loaded" ELSE "loaded"
  /\ UNCHANGED <<crawlVars, lastIndex, data, EQUIP_COLS, removed, cleaned, idx, arg, ret,
                 mrtRows, mrtMap, joined, filtered>>

\* loadCsv(mrtCsvPath) resolves, before or after the other load
LoadMrt ==
  /\ pc \in {"loading", "rent-loaded"}
  /\ mrtRows' = arg.mrt
  /\ pc' = IF pc = "loading" THEN "mrt-loaded" ELSE "loaded"
  /\ UNCHANGED <<crawlVars, lastIndex, data, EQUIP_COLS, removed, cleaned, idx, arg, ret,
                 rentRows, mrtMap, joined, filtered>>

\* Promise.all has resolved: the lookup is built
BuildMrtMap ==
  /\ pc = "loaded"
  /\ mrtMap' = SetAll(<<>>, mrtRows)
  /\ pc' = "join"
  /\ UNCHANGED <<crawlVars, lastIndex, data, EQUIP_COLS, removed, cleaned, idx, arg, ret,
                 rentRows, mrtRows, joined, filtered>>

\* one row of rentRows.map
JoinRow ==
  /\ pc = "join"
  /\ idx < Len(rentRows)
  /\ joined' = Append(joined, JoinOne(rentRows[idx + 1], mrtMap))
  /\ idx' = idx + 1
  /\ UNCHANGED <<crawlVars, lastIndex, pc, data, EQUIP_COLS, removed, cleaned, arg, ret,
                 rentRows, mrtRows, mrtMap, filtered>>

\* joined.filter(...)
FilterRows ==
  /\ pc = "join"
  /\ idx = Len(rentRows)
  /\ filtered' = SelectSeq(joined, PriceKept)
  /\ pc' = "write"
  /\ UNCHANGED <<crawlVars, lastIndex, data, EQUIP_COLS, removed, cleaned, idx, arg, ret,
                 rentRows, mrtRows, mrtMap, joined>>

\* filtered.forEach((r) => delete r["編號"]), the headers of the first
\* record, writer.writeRecords(filtered).  The rows of filtered are the
\* very objects of joined, so these lose their 編號 as well.
WriteMerged ==
  /\ pc = "write"
  /\ filtered' = [i \in 1..Len(filtered) |-> Delete(filtered[i], <<"id">>)]
  /\ joined' = [i \in 1..Len(joined) |->
                  IF PriceKept(joined[i]) THEN Delete(joined[i], <<"id">>) ELSE joined[i]]
  /\ ret' = [headers |-> HeadersOf(filtered'), records |-> filtered']
  /\ pc' = "merged"
  /\ UNCHANGED <<crawlVars, lastIndex, data, EQUIP_COLS, removed, cleaned, idx, arg, rentRows, mrtRows,
                 mrtMap>>

NextMerge ==
  \/ LoadRent
  \/ LoadMrt
  \/ BuildMrtMap
  \/ JoinRow
  \/ FilterRows
  \/ WriteMerged

SpecMerge == InitMerge /\ [][NextMerge]_vars

(***************************************************************************)
(* Properties of the enrichment join                                       *)
(***************************************************************************)
\* the joined columns under the names they have in a joined row
JoinedCols ==
  { <<"coord-x">>, <<"coord-y">>, <<"station">>, <<"distance(m)">>,
    <<"opened">>, <<"price">> } \cup { lineCols[i] : i \in 1..Len(lineCols) }

\* no row of mrt.csv has the trimmed 編號 of the rent row
Unmatched(rent) ==
  \A k \in 1..Len(arg.mrt) :
    Trim(Get(arg.mrt[k], <<"id">>).v) # Trim(Get(rent, <<"id">>).v)

\* the row of rent_cln.csv a joined row was made from
RentOf(row) ==
  arg.rent[CHOOSE i \in 1..Len(arg.rent) :
             Get(arg.rent[i], <<"address">>) = Get(row, <<"address">>)]

\* C20: a cleaned record whose trimmed 編號 has no match in mrt.csv gets the
\* empty text in every joined column and does not pass the price filter;
\* every record of the merged output matched a row of mrt.csv and its
\* 附近建物單位成交均價 is not empty after trimming.
C20_UnmatchedDropped ==
  /\ pc \in {"join", "write", "merged"} =>
       \A i \in 1..Len(joined) :
         Unmatched(arg.rent[i]) =>
           \A c \in JoinedCols : Get(joined[i], c) = Str(<<>>)
  /\ pc \in {"write", "merged"} =>
       \A j \in 1..Len(filtered) : ~Unmatched(RentOf(filtered[j]))
  /\ pc = "merged" =>
       \A j \in 1..Len(ret.records) :
         /\ ~Unmatched(RentOf(ret.records[j]))
         /\ Trim(Get(ret.records[j], <<"price">>).v) # <<>>

\* a run that wrote a record and dropped an unmatched record which had a
\* price column of its own
C20_Witness ==
  /\ pc = "merged"
  /\ Len(ret.records) >= 1
  /\ \E i \in 1..Len(arg.rent) :
       /\ Unmatched(arg.rent[i])
       /\ hasOwnProperty(arg.rent[i], <<"price">>)
       /\ \A j \in 1..Len(ret.records) :
            Get(ret.records[j], <<"address">>) # Get(arg.rent[i], <<"address">>)

\* the flag texts that denote the number 1
OneTexts == { <<"1">>, <<"1", ".", "0">>, <<"0", "1">>, <<"+", "1">> }

\* the flag a joined row holds for line k is set
FlagSet(row, k) == Trim(Get(row, lineCols[k]).v) \in OneTexts

\* the names of the lines k..8 whose flag is set, each followed by a comma
RECURSIVE SetLinesFrom(_, _)
SetLinesFrom(row, k) ==
  IF k > Len(lineCols) THEN <<>>
  ELSE (IF FlagSet(row, k) THEN lineCols[k] \o <<",">> ELSE <<>>)
         \o SetLinesFrom(row, k + 1)

\* the comma-joined list: the last comma is left out
ExpectedLines(row) ==
  With(SetLinesFrom(row, 1), LAMBDA t :
    IF t = <<>> THEN <<>> ELSE SubSeq(t, 1, Len(t) - 1))

LinesAsClaimed(row) ==
  /\ Get(row, <<"lines">>) = Str(ExpectedLines(row))
  /\ Get(row, <<"transfer">>) =
       (IF Cardinality({ k \in 1..Len(lineCols) : FlagSet(row, k) }) >= 2
        THEN Num(1) ELSE Num(0))

\* C21: in every joined record 捷運線 is the comma-joined list of exactly the
\* line names whose copied flag is, after trimming, not empty and
\* numerically 1, in the order of lineCols, and 轉乘站 is 1 if and only if
\* at least two flags are set, else 0.
C21_ActiveLines ==
  /\ \A i \in 1..Len(joined) : LinesAsClaimed(joined[i])
  /\ pc = "merged" => \A j \in 1..Len(ret.records) : LinesAsClaimed(ret.records[j])

\* a written file with a transfer station of exactly the two lines 文湖線
\* and 淡水信義線 and a record made from the flags " 1 ", x, empty, 2, 01,
\* 0, 1, +1
C21_Witness ==
  /\ pc = "merged"
  /\ \E j \in 1..Len(ret.records) :
       /\ Get(ret.records[j], <<"lines">>) = Str(<<"wenhu", ",", "tamsui-xinyi">>)
       /\ Get(ret.records[j], <<"transfer">>) = Num(1)
  /\ \E j \in 1..Len(ret.records) :
       /\ Get(ret.records[j], <<"lines">>) =
            Str(<<"wenhu", ",", "xiaobitan", ",", "bannan", ",", "circular">>)
       /\ Get(ret.records[j], lineCols[2]) = Str(<<"x">>)

\* the rows of mrt.csv with the trimmed 編號 of the rent row, by position
MatchesOf(rent) ==
  { k \in 1..Len(arg.mrt) :
      Trim(Get(arg.mrt[k], <<"id">>).v) = Trim(Get(rent, <<"id">>).v) }

\* the last of them in the order of the file
LastMatchOf(rent) ==
  arg.mrt[CHOOSE k \in MatchesOf(rent) : \A j \in MatchesOf(rent) : j <= k]

\* the columns merge.ts removes from a record, and the renamed ones
RemovedCols == { <<"id">>, <<"x">>, <<"y">>, <<"distance.m.">> }

RenamedCols ==
  << [from |-> <<"x">>, to |-> <<"coord-x">>],
     [from |-> <<"y">>, to |-> <<"coord-y">>],
     [from |-> <<"distance.m.">>, to |-> <<"distance(m)">>] >>

ColumnsAsClaimed(rec) ==
  /\ \A c \in RemovedCols : ~hasOwnProperty(rec, c)
  /\ \A n \in 1..Len(RenamedCols) :
       /\ hasOwnProperty(rec, RenamedCols[n].to)
       /\ Get(rec, RenamedCols[n].to) = Get(LastMatchOf(RentOf(rec)), RenamedCols[n].from)
  /\ \A k \in 1..Len(lineCols) : hasOwnProperty(rec, lineCols[k])
  /\ hasOwnProperty(rec, <<"lines">>)
  /\ hasOwnProperty(rec, <<"transfer">>)

\* C22: every record of the merged output has no column 編號, x, y or
\* 捷運站距離.公尺.; it has 座標 x, 座標 y and 捷運站距離(公尺) with the copied
\* values, and the eight line-flag columns under their own names next to
\* 捷運線 and 轉乘站.  The header row, taken from the first record, names the
\* same columns.
C22_OutputColumns ==
  pc = "merged" =>
    /\ \A j \in 1..Len(ret.records) : ColumnsAsClaimed(ret.records[j])
    /\ \A j \in 1..Len(ret.records) :
         { ret.headers[n] : n \in 1..Len(ret.headers) } = Keys(ret.records[j])

\* two records were written, made from rent rows that had a 編號
C22_Witness ==
  /\ pc = "merged"
  /\ Len(ret.records) = 2
  /\ \A i \in 1..Len(arg.rent) : hasOwnProperty(arg.rent[i], <<"id">>)
  /\ Get(ret.records[1], <<"coord-x">>) = Str(<<"1", "2", "1", ".", "5">>)
  /\ Get(ret.records[2], <<"distance(m)">>) = Str(<<"3", "5", "0">>)

(***************************************************************************)
(* Properties of the cleaning pass as a whole                              *)
(***************************************************************************)
\* the two rows are the same raw row, up to the 編號 that tells them apart
SameRaw(a, b) == [a EXCEPT !.id = b.id] = b

\* C23: admission is deterministic and independent of the other rows:
\* evaluating the filter again on a row, in any later state of the pass
\* and whatever was evaluated before, gives the decision and the reason
\* that were recorded for the row, and the same raw row at another position
\* of the batch gets the same decision and reason.
C23_AdmissionDeterministic ==
  /\ InPass =>
       /\ \A r \in Reasons :
            removed[r] = Cardinality({ i \in 1..idx : cleanReason(data[i]) = r })
       /\ \A i \in 1..idx :
            (RecordsOf(data[i].id) # {}) <=> cleanReason(data[i]) = NoReason
       /\ \A i, j \in 1..Len(data) :
            SameRaw(data[i], data[j]) => cleanReason(data[i]) = cleanReason(data[j])
  /\ Returned("getRemovalReason") => getRemovalReason(arg.row, arg.lb) = ret.reason

\* a finished pass over a batch that holds the same raw row twice: both
\* copies were admitted
C23_Witness ==
  /\ pc = "done"
  /\ Len(data) = 2
  /\ SameRaw(data[1], data[2])
  /\ Len(cleaned) = 2
  /\ PURPOSE_RE_test(data[2].usage.v)

(***************************************************************************)
(* The crawl script: filterRows, the deduplication, the split, dumpCSV     *)
(*                                                                         *)
(* Column keys and their CSV names: id 編號, tdate 交易年月日,             *)
(*   address 土地區段位置或建物區門牌, subject 交易標的,                   *)
(*   zone-urban 都市土地使用分區, zone-rural 非都市土地使用分區,           *)
(*   lease 租賃年月日, period 租賃期間, note 備註, source_file.            *)
(***************************************************************************)
EXCLUDE_SET == {T_land, T_parking, T_building}

\* ZONING_RESIDENTIAL.test(text): /住/ has no flag
ZONING_RESIDENTIAL_test(text) == Includes(text, <<"zhu">>)

\* r[col] ?? ""
CellOrEmpty(r, col) == Coalesce(Get(r, col), Str(<<>>)).v

\* the callback of dataRows.filter
KeptByFilterRows(r) ==
  /\ Trim(CellOrEmpty(r, <<"subject">>)) \notin EXCLUDE_SET
  /\ ZONING_RESIDENTIAL_test(CellOrEmpty(r, <<"zone-urban">>)
                               \o CellOrEmpty(r, <<"zone-rural">>))

\* filterRows(csvPath, fileName) on the records parsed from the file: the
\* first record is the English header
filterRows(records, fileName) ==
  IF Len(records) <= 1 THEN <<>>
  ELSE With(SelectSeq(Tail(records), KeptByFilterRows), LAMBDA kept :
         [i \in 1..Len(kept) |-> Put(kept[i], <<"source_file">>, Str(fileName))])

\* `${r["編號"] ?? ""}-${r["交易年月日"]}-${r["土地區段位置或建物區門牌"]}`
DedupeKey(r) ==
  CellOrEmpty(r, <<"id">>) \o <<"-">> \o JSString(Get(r, <<"tdate">>))
    \o <<"-">> \o JSString(Get(r, <<"address">>))

\* all.reduce((acc, r) => { acc[key] = r; return acc }, {}): a key keeps the
\* place of its first assignment and the value of its last one.  A key holds
\* two hyphens, so it is no array index and is never moved to the front.
RECURSIVE Reduce(_, _)
Reduce(acc, rows) ==
  IF rows = <<>> THEN acc
  ELSE Reduce(Put(acc, DedupeKey(Head(rows)), Head(rows)), Tail(rows))

\* Object.values(obj)
ObjectValues(obj) == [i \in 1..Len(obj) |-> obj[i].v]

\* isRent(row)
isRent(row) == CellOrEmpty(row, <<"lease">>) # <<>> \/ CellOrEmpty(row, <<"period">>) # <<>>

\* `"${String(v ?? "").replace(/"/g, '""')}"`
RECURSIVE DoubleQuotes(_)
DoubleQuotes(t) ==
  IF t = <<>> THEN <<>>
  ELSE (IF Head(t) = "\"" THEN <<"\"", "\"">> ELSE <<Head(t)>>) \o DoubleQuotes(Tail(t))

QuotedCell(v) == <<"\"">> \o DoubleQuotes(JSString(Coalesce(v, Str(<<>>)))) \o <<"\"">>

\* dumpCSV(rows, outfile): the header line and the lines of the body, or
\* NULL when no file is written
dumpCSV(rows) ==
  IF rows = <<>> THEN NULL
  ELSE [header |-> [j \in 1..Len(rows[1]) |-> rows[1][j].k],
        body |-> [i \in 1..Len(rows) |->
                    [j \in 1..Len(rows[i]) |-> QuotedCell(rows[i][j].v)]]]

(***************************************************************************)
(* The files the crawl script reads                                        *)
(***************************************************************************)
MaxFiles == 2        \* CSV files of Taipei City in tmp/
MaxFileRows == 2     \* data rows of a file, after its two header rows

CrawlRow(id, note, subject, zone, lease) ==
  << [k |-> <<"id">>, v |-> Str(id)],
     [k |-> <<"tdate">>, v |-> Str(<<"1", "1", "3", "0", "6", "0", "1">>)],
     [k |-> <<"address">>, v |-> Str(<<"zhong", "shan", "lu", "1", "hao">>)],
     [k |-> <<"subject">>, v |-> Str(subject)],
     [k |-> <<"zone-urban">>, v |-> Str(zone)],
     [k |-> <<"zone-rural">>, v |-> Str(<<>>)],
     [k |-> <<"lease">>, v |-> Str(lease)],
     [k |-> <<"period">>, v |-> Str(<<>>)],
     [k |-> <<"note">>, v |-> Str(note)] >>

\* the second header row of a file: the English column names
EnglishHeader ==
  CrawlRow(<<"serial_number">>, <<"the_note">>, <<"transaction_sign">>,
           <<"the_use_zoning">>, <<"rental_date">>)

\* rows of 編號 1 and 2 that differ in 備註 and in being a rental, a row of
\* 交易標的 土地 and a row of a commercial zone
CrawlPool ==
  { CrawlRow(id, note, T_fangdi, <<"zhu">>, lease) :
      id \in { <<"1">>, <<"2">> },
      note \in { <<"a">>, <<"b", "\"", "c">> },
      lease \in { <<>>, <<"1", "1", "3", "0", "6", "0", "1">> } }
  \cup { CrawlRow(<<"1">>, <<"a">>, T_land, <<"zhu">>, <<>>),
         CrawlRow(<<"1">>, <<"a">>, T_fangdi, <<"shang">>, <<>>) }

CrawlFile(k) ==
  { [name |-> <<"a_lvr_land_">> \o NumText(k), records |-> <<EnglishHeader>> \o b] :
      b \in UNION { [1..n -> CrawlPool] : n \in 0..MaxFileRows } }

CrawlDirs ==
  UNION { { f \in [1..n -> UNION { CrawlFile(k) : k \in 1..MaxFiles }] :
              \A k \in 1..n : f[k] \in CrawlFile(k) } : n \in 1..MaxFiles }

(***************************************************************************)
(* The crawl script: main                                                  *)
(***************************************************************************)
InitCrawl ==
  /\ pc = "parsing"
  /\ arg \in { [fn |-> "crawl", files |-> d] : d \in CrawlDirs }
  /\ ret = NULL
  /\ all = <<>>
  /\ uniq = <<>>
  /\ NoCleanRun
  /\ NoMergeRun

\* one round of for (const file of taipeiFiles)
ParseFile ==
  /\ pc = "parsing"
  /\ idx < Len(arg.files)
  /\ all' = all \o filterRows(arg.files[idx + 1].records, arg.files[idx + 1].name)
  /\ idx' = idx + 1
  /\ UNCHANGED <<pc, uniq, lastIndex, data, EQUIP_COLS, removed, cleaned, arg, ret,
                 mergeVars>>

\* the deduplication
Dedupe ==
  /\ pc = "parsing"
  /\ idx = Len(arg.files)
  /\ uniq' = ObjectValues(Reduce(<<>>, all))
  /\ pc' = "split"
  /\ UNCHANGED <<all, lastIndex, data, EQUIP_COLS, removed, cleaned, idx, arg, ret,
                 mergeVars>>

\* the split by isRent and the two files; nothing is written when no row
\* is left
WriteSplit ==
  /\ pc = "split"
  /\ ret' = IF uniq = <<>> THEN [rent |-> NULL, other |-> NULL]
            ELSE [rent |-> dumpCSV(SelectSeq(uniq, isRent)),
                  other |-> dumpCSV(SelectSeq(uniq, LAMBDA r : ~isRent(r)))]
  /\ pc' = "crawled"
  /\ UNCHANGED <<crawlVars, lastIndex, data, EQUIP_COLS, removed, cleaned, idx, arg,
                 mergeVars>>

NextCrawl ==
  \/ ParseFile
  \/ Dedupe
  \/ WriteSplit

SpecCrawl == InitCrawl /\ [][NextCrawl]_vars

(***************************************************************************)
(* Properties of the deduplication                                         *)
(***************************************************************************)
\* the key of a row: 編號, 交易年月日, 門牌
KeyOf(r) == <<Get(r, <<"id">>), Get(r, <<"tdate">>), Get(r, <<"address">>)>>

\* the positions in all of the rows with the key of r
SameKey(r) == { i \in 1..Len(all) : KeyOf(all[i]) = KeyOf(r) }

FirstOf(S) == CHOOSE i \in S : \A j \in S : i <= j

LastOf(S) == CHOOSE i \in S : \A j \in S : j <= i

\* no two rows of uniq share a key, and every key of all is in uniq
OnePerKey ==
  /\ \A i, j \in 1..Len(uniq) : KeyOf(uniq[i]) = KeyOf(uniq[j]) => i = j
  /\ \A i \in 1..Len(all) : \E j \in 1..Len(uniq) : KeyOf(uniq[j]) = KeyOf(all[i])

\* C24: the deduplication keeps exactly one row for each key
\* 編號-交易年月日-門牌, and that row is the first one encountered in input
\* order; no two rows of the output share a key.
C24_FirstWinnerKept ==
  pc \in {"split", "crawled"} =>
    /\ OnePerKey
    /\ \A j \in 1..Len(uniq) : uniq[j] = all[FirstOf(SameKey(uniq[j]))]

\* what the script does: one row for each key, the last one encountered,
\* at the place of the first
C24_LastWinnerKept ==
  pc \in {"split", "crawled"} =>
    /\ OnePerKey
    /\ \A j \in 1..Len(uniq) : uniq[j] = all[LastOf(SameKey(uniq[j]))]
    /\ \A i, j \in 1..Len(uniq) :
         i < j => FirstOf(SameKey(uniq[i])) < FirstOf(SameKey(uniq[j]))

(***************************************************************************)
(* Properties of the cleaned record                                        *)
(***************************************************************************)
\* the record carries the three counts of ratio, and not land = 0 with
\* building = 0
CountsAsClaimed(rec, ratio) ==
  /\ Get(rec, <<"land">>) = Num(ratio.land)
  /\ Get(rec, <<"building">>) = Num(ratio.building)
  /\ Get(rec, <<"parking">>) = Num(ratio.parking)
  /\ ~(Get(rec, <<"land">>) = Num(0) /\ Get(rec, <<"building">>) = Num(0))

\* transformRow was called on an admitted row with the counts of its
\* 租賃筆棟數, the ones the guard of getRemovalReason was given
CalledOnAdmitted ==
  /\ Returned("transformRow")
  /\ arg.lb = LB(parseTransRatio(arg.row.ratio))
  /\ getRemovalReason(arg.row, arg.lb) = NoReason

\* C25: every cleaned record carries the three derived counts land,
\* building and parking; they are the values parseTransRatio gives for the
\* raw 租賃筆棟數 of the row, the values the admission guard used, so no
\* cleaned record has land = 0 and building = 0 together.
C25_DerivedCounts ==
  /\ InPass =>
       \A j \in 1..Len(cleaned) :
         CountsAsClaimed(cleaned[j], parseTransRatio(RowOf(cleaned[j]).ratio))
  /\ CalledOnAdmitted => CountsAsClaimed(ret.out, parseTransRatio(arg.row.ratio))

\* the pass of clean.ts does as claimed
C25_CleanPass ==
  InPass =>
    \A j \in 1..Len(cleaned) :
      CountsAsClaimed(cleaned[j], parseTransRatio(RowOf(cleaned[j]).ratio))

\* transformRow gives the two counts it was handed, and no third
C25_TransformRowTwoCounts ==
  CalledOnAdmitted =>
    /\ Get(ret.out, <<"land">>) = Num(arg.lb.land)
    /\ Get(ret.out, <<"building">>) = Num(arg.lb.building)
    /\ ~hasOwnProperty(ret.out, <<"parking">>)

\* the drop-list as it is documented
DocumentedDropList ==
  { "subject", "landArea", "zoneUrban", "zoneRural", "zoneRuralUse", "ratio", "period",
    "parkCat", "parkArea", "parkTotal", "equip", "remark", "source_file" }

\* the raw columns whose name is the name of a derived field
DerivedNames ==
  { "lease", "built", "usage", "material", "rooms", "halls", "baths", "total" }
    \cup { FlagCols[i] : i \in 1..Len(FlagCols) }
    \cup { FillCols[i] : i \in 1..Len(FillCols) }

\* the derived fields whose value is never the raw text of the column
Recomputed == { "lease", "built", "rooms", "halls", "baths", "total" }

FrameAsClaimed(rec, row) ==
  /\ \A c \in DocumentedDropList : ~hasOwnProperty(rec, <<c>>)
  /\ \A i \in 1..Len(RawCols) :
       (RawCols[i] \notin DocumentedDropList \cup DerivedNames /\ row[RawCols[i]] # UNDEFINED)
         => Get(rec, <<RawCols[i]>>) = row[RawCols[i]]
  /\ \A c \in Recomputed : Get(rec, <<c>>) # row[c]

\* C26: for every admitted row no column of the drop-list is in the cleaned
\* record; every other raw column whose name is not the name of a derived
\* field is in the record under its own name with its raw value; a derived
\* field is not overwritten by the raw column of the same name.
C26_CopiedColumns ==
  /\ InPass => \A j \in 1..Len(cleaned) : FrameAsClaimed(cleaned[j], RowOf(cleaned[j]))
  /\ (Returned("transformRow") /\ getRemovalReason(arg.row, arg.lb) = NoReason)
       => FrameAsClaimed(ret.out, arg.row)

\* a finished pass kept a row that has a 租賃期間 and the floor 十二層, which
\* the record carries as it was
C26_Witness ==
  /\ pc = "done"
  /\ \E j \in 1..Len(cleaned) :
       /\ RowOf(cleaned[j]).period # Str(<<>>)
       /\ RowOf(cleaned[j]).floor = Str(<<"shi10", "er", "ceng">>)
       /\ Get(cleaned[j], <<"floor">>) = Str(<<"shi10", "er", "ceng">>)
       /\ Get(cleaned[j], <<"id">>) = RowOf(cleaned[j]).id

(***************************************************************************)
(* Properties of the lookup of merge.ts                                    *)
(***************************************************************************)
\* the name a column of mrt.csv has in a joined row
OutName(c) ==
  IF \E n \in 1..Len(RenamedCols) : RenamedCols[n].from = c
  THEN RenamedCols[CHOOSE n \in 1..Len(RenamedCols) : RenamedCols[n].from = c].to
  ELSE c

\* the joined row holds the cells of the row of mrt.csv, the empty text
\* for a cell the row lacks
JoinedFrom(row, mrt) ==
  \A n \in 1..Len(mrtCols) :
    Get(row, OutName(mrtCols[n])) =
      (IF hasOwnProperty(mrt, mrtCols[n]) THEN Get(mrt, mrtCols[n]) ELSE Str(<<>>))

\* C27: when mrt.csv holds several rows with the same trimmed 編號, the
\* lookup keeps only the last of them in the order of the file, and every
\* cleaned record with that 編號 receives the joined values of that last row.
C27_LastWriteWins ==
  pc \in {"join", "write", "merged"} =>
    /\ \A n \in 1..Len(mrtMap) :
         /\ mrtMap[n].v = LastMatchOf(mrtMap[n].v)
         /\ \A m \in 1..Len(mrtMap) : mrtMap[m].k = mrtMap[n].k => m = n
    /\ \A i \in 1..Len(joined) :
         MatchesOf(arg.rent[i]) # {} => JoinedFrom(joined[i], LastMatchOf(arg.rent[i]))

\* mrt.csv holds 編號 1 twice, with the prices 30 and then 45 and other
\* line flags; the record written for 編號 1 has the price 45
C27_Witness ==
  /\ pc = "merged"
  /\ Len(arg.mrt) = 2
  /\ Trim(Get(arg.mrt[1], <<"id">>).v) = Trim(Get(arg.mrt[2], <<"id">>).v)
  /\ Get(arg.mrt[1], <<"price">>) = Str(<<"3", "0">>)
  /\ Get(arg.mrt[2], <<"price">>) = Str(<<"4", "5">>)
  /\ \E j \in 1..Len(ret.records) :
       /\ Get(ret.records[j], <<"price">>) = Str(<<"4", "5">>)
       /\ Get(ret.records[j], <<"lines">>) = Str(<<"bannan">>)

(***************************************************************************)
(* The two traversals: the pass of clean.ts and the join of merge.ts       *)
(***************************************************************************)
InitOrder == InitCleanOn(BatchesOf(RowPool)) \/ InitMerge

NextOrder ==
  \/ CollectEquip
  \/ ProcessRow
  \/ Write
  \/ NextMerge

SpecOrder == InitOrder /\ [][NextOrder]_vars

\* the rows of s of which Keep holds, by rising position
Subsequence(s, Keep(_)) ==
  With({ i \in 1..Len(s) : Keep(s[i]) }, LAMBDA kept :
    [j \in 1..Cardinality(kept) |->
       s[CHOOSE i \in kept : Cardinality({ k \in kept : k <= i }) = j]])

\* no guard holds of the raw row
Admitted(row) == Matching(row, CountsOf(row)) = {}

\* the rent row has a match in mrt.csv whose price is not blank
HasPrice(rent) ==
  /\ MatchesOf(rent) # {}
  /\ hasOwnProperty(LastMatchOf(rent), <<"price">>)
  /\ Trim(Get(LastMatchOf(rent), <<"price">>).v) # <<>>

\* the 編號 of the records of the pass, and the 門牌 of the rows of the join
IdsOf(recs) == [j \in 1..Len(recs) |-> Get(recs[j], <<"id">>)]

AddressesOf(rows) == [j \in 1..Len(rows) |-> Get(rows[j], <<"address">>)]

\* C28: both traversals preserve the order of their input: the cleaned
\* dataset is the subsequence of the admitted raw rows, and the merged
\* output is the subsequence of the cleaned records that pass the price
\* filter, in the order of the cleaned dataset; no row is duplicated or
\* reordered.
C28_OrderPreserved ==
  /\ InPass =>
       IdsOf(cleaned) =
         [j \in 1..Len(Subsequence(SubSeq(data, 1, idx), Admitted)) |->
            Subsequence(SubSeq(data, 1, idx), Admitted)[j].id]
  /\ pc \in {"join", "write", "merged"} =>
       AddressesOf(joined) = AddressesOf(SubSeq(arg.rent, 1, idx))
  /\ pc \in {"write", "merged"} =>
       AddressesOf(filtered) = AddressesOf(Subsequence(arg.rent, HasPrice))
  /\ pc = "merged" =>
       AddressesOf(ret.records) = AddressesOf(Subsequence(arg.rent, HasPrice))

\* a finished pass that kept both rows of its batch
C28_Witness ==
  /\ pc = "done"
  /\ Len(data) = 2
  /\ IdsOf(ret.file) = << Str(<<"1">>), Str(<<"2">>) >>

(***************************************************************************)
(* Properties of the equipment vocabulary                                  *)
(***************************************************************************)
\* EQUIP_COLS holds, once each, the items of 附屬設備 of all rows of data
VocabularyComplete ==
  /\ { EQUIP_COLS[i] : i \in 1..Len(EQUIP_COLS) } =
       UNION { TokenSet(data[i].equip) : i \in 1..Len(data) }
  /\ \A i, j \in 1..Len(EQUIP_COLS) : EQUIP_COLS[i] = EQUIP_COLS[j] => i = j

\* C29: the equipment vocabulary is completely built by a pre-pass over all
\* raw rows before the first row is admitted or transformed, and from the
\* first processed row until the output is written it is never added to,
\* removed from or reordered.
C29_VocabularyFixed ==
  /\ [](pc = "collect" => idx = 0 /\ cleaned = <<>> /\ removed = ZeroCounts)
  /\ [](InPass => VocabularyComplete)
  /\ [][pc = "clean" => EQUIP_COLS' = EQUIP_COLS]_vars

\* a finished pass whose vocabulary has an item that only a rejected row,
\* the last of the batch, has
C29_Witness ==
  /\ pc = "done"
  /\ Len(data) = 2
  /\ Len(cleaned) = 1
  /\ Get(cleaned[1], <<"id">>) = data[1].id
  /\ \E i \in 1..Len(EQUIP_COLS) :
       /\ EQUIP_COLS[i] \in TokenSet(data[2].equip)
       /\ EQUIP_COLS[i] \notin TokenSet(data[1].equip)

(***************************************************************************)
(* Properties of the layout counts                                         *)
(***************************************************************************)
LayoutCols == {"rooms", "halls", "baths"}

\* C30: in every cleaned record the counts of rooms, halls and baths are
\* each a number that is at most 100; a raw row whose count text is no
\* number does not reach the cleaned dataset with a count that is NaN.
C30_LayoutCounts ==
  /\ InPass =>
       \A j \in 1..Len(cleaned) : \A c \in LayoutCols :
         /\ Get(cleaned[j], <<c>>) # NaN
         /\ Get(cleaned[j], <<c>>).v <= MAX_LAYOUT
  /\ (Returned("transformRow") /\ getRemovalReason(arg.row, arg.lb) = NoReason) =>
       \A c \in LayoutCols :
         /\ Get(ret.out, <<c>>) # NaN
         /\ Get(ret.out, <<c>>).v <= MAX_LAYOUT

\* what the guards give: a count of a cleaned record is NaN or at most 100
C30_NaNOrAtMost ==
  /\ InPass =>
       \A j \in 1..Len(cleaned) : \A c \in LayoutCols :
         Get(cleaned[j], <<c>>) # NaN => Get(cleaned[j], <<c>>).v <= MAX_LAYOUT
  /\ (Returned("transformRow") /\ getRemovalReason(arg.row, arg.lb) = NoReason) =>
       \A c \in LayoutCols :
         Get(ret.out, <<c>>) # NaN => Get(ret.out, <<c>>).v <= MAX_LAYOUT


=============================================================================
